---- MODULE Spec2Model ----
(***************************************************************************)
(* A model of otis' aggregation core: the incremental file processor       *)
(* (aggregator/processor.go), the OTLP record extractors (same file) and   *)
(* the aggregation engine (aggregator/engine.go) over the processing_state *)
(* cursor kept by the store (aggregator/store.go).                         *)
(*                                                                         *)
(* Floating point amounts (USD, milliseconds) are integers in a fixed      *)
(* unit; strings are TLA+ strings; a JSON value is a tagged record.        *)
(***************************************************************************)
EXTENDS Integers, Sequences, FiniteSets, TLC

VARIABLES
    file,              \* the role file metrics.jsonl on disk
    processing_state,  \* the processing_state row of metrics.jsonl in the store
    engine,            \* the Engine's caches
    pass,              \* what the last ProcessFile call did, until the file changes (history)
    passes,            \* number of ProcessFile calls so far (history)
    history,           \* records folded by the Engine so far (history)
    xin,               \* input of the last extractor call
    xout,              \* its output
    store,             \* the aggregate tables of the store
    logs,              \* log records folded by the Engine so far (history)
    traces,            \* trace records folded by the Engine so far (history)
    now,               \* the wall clock time.Now(), in whole seconds
    lastFlush,         \* what the last FlushCache call did (history)
    shutdown,          \* where main, the processor goroutine and the store are
    locking            \* the goroutines inside Engine.cacheMutex and the fold in progress

\* The variables the file processor and the extractors leave alone.
aux == <<store, logs, traces, now, lastFlush, shutdown, locking>>

vars ==
    <<file, processing_state, engine, pass, passes, history, xin, xout, store, logs, traces,
      now, lastFlush, shutdown, locking>>

(***************************************************************************)
(* Bounds of the model.                                                    *)
(***************************************************************************)
MaxLines == 2
MaxInode == 2
MaxPasses == 3
MaxHistory == 3
MaxResAttrs == 1
MaxAttrs == 2
MaxPoints == 2
MaxLogs == 3
MaxNow == 2
MaxUpserts == 2

(***************************************************************************)
(* Generic helpers.                                                        *)
(***************************************************************************)
Range(s) == {s[i] : i \in DOMAIN s}

\* The element of a one-element set; Only({F(x) : x \in {e}}) is F(e) with e
\* computed once.
Only(S) == CHOOSE x \in S : TRUE

RECURSIVE SumSeq(_)
SumSeq(s) == IF s = <<>> THEN 0 ELSE Head(s) + SumSeq(Tail(s))

RECURSIVE FlatMap(_, _)
FlatMap(F(_), s) == IF s = <<>> THEN <<>> ELSE F(Head(s)) \o FlatMap(F, Tail(s))

(***************************************************************************)
(* Decoded JSON.  A primitive is [t, s, n]: t is the JSON type, s the text *)
(* of a string, n the value of a number.  An attribute is [key, value]     *)
(* where value is the tagged value object, a map from tag to primitive.    *)
(***************************************************************************)
Str(x) == [t |-> "str", s |-> x, n |-> 0]
Num(x) == [t |-> "num", s |-> "", n |-> x]
StringValue(x) == [tag |-> "stringValue", prim |-> Str(x)]
IntValueStr(x) == [tag |-> "intValue", prim |-> Str(x)]
IntValueNum(x) == [tag |-> "intValue", prim |-> Num(x)]
DoubleValue(x) == [tag |-> "doubleValue", prim |-> Num(x)]
Attr(k, v) == [key |-> k, value |-> v]

\* valueMap[tag].(string): the text when the tag is present and holds a string.
HasString(valueMap, tag) == valueMap.tag = tag /\ valueMap.prim.t = "str"

\* fmt.Sscanf(s, "%d", &n): the leading decimal integer of s; n stays 0 when
\* s does not start with one.
Sscanf_d(s) ==
    CASE s = "0" -> 0
      [] s = "1" -> 1
      [] s = "2" -> 2
      [] s = "3" -> 3
      [] s = "-1" -> 0 - 1
      [] s = "1500" -> 1500
      [] OTHER -> 0

\* A Go map[string]string: a function whose domain is the set of keys present.
EmptyMap == [k \in {} |-> ""]
MapGet(m, k) == IF k \in DOMAIN m THEN m[k] ELSE ""
MapPut(m, k, v) == [x \in DOMAIN m \cup {k} |-> IF x = k THEN v ELSE m[x]]
\* Mutant: a key dst already holds keeps its value.
MapMergeKeepFirst(dst, src) ==
    [x \in DOMAIN dst \cup DOMAIN src |-> IF x \in DOMAIN dst THEN dst[x] ELSE src[x]]

\* for k, v := range src { dst[k] = v }
MapMerge(dst, src) ==
    [x \in DOMAIN dst \cup DOMAIN src |-> IF x \in DOMAIN src THEN src[x] ELSE dst[x]]

\* The loop shared by extractResourceAttributes and extractMetricRecords:
\* every attribute whose value object holds a string stringValue is stored
\* under its key, a later one overwriting an earlier one.
RECURSIVE StringAttrs(_, _)
StringAttrs(attributes, acc) ==
    IF attributes = <<>> THEN acc
    ELSE LET a == Head(attributes)
         IN  StringAttrs(Tail(attributes),
                 IF HasString(a.value, "stringValue")
                 THEN MapPut(acc, a.key, a.value.prim.s)
                 ELSE acc)

extractResourceAttributes(resourceMap) ==
    IF ~resourceMap.hasResource THEN EmptyMap
    ELSE StringAttrs(resourceMap.resource, EmptyMap)

(***************************************************************************)
(* aggregator/processor.go: the record extractors.                         *)
(***************************************************************************)
Absent == [t |-> "absent", s |-> "", n |-> 0]

\* The zero time.Time, which is before every instant time.Unix yields.
ZeroTime == 0 - 1

\* if timeStr, ok := m["timeUnixNano"].(string); ok { Sscanf; time.Unix(0, nanos) }
ParseTimeUnixNano(prim) == IF prim.t = "str" THEN Sscanf_d(prim.s) ELSE ZeroTime

NilValue == [t |-> "nil", n |-> 0]

\* One data point of a sum metric (processor.go:401-461).
MetricRecordOf(name, dp, resourceAttrs) ==
    LET dataPointAttrs == StringAttrs(dp.attributes, EmptyMap)
        value == IF dp.asInt.t = "str" THEN [t |-> "int64", n |-> Sscanf_d(dp.asInt.s)]
                 ELSE IF dp.asDouble.t = "num" THEN [t |-> "float64", n |-> dp.asDouble.n]
                 ELSE NilValue
        allAttrs == MapMerge(MapMerge(EmptyMap, resourceAttrs), dataPointAttrs)
    IN  [Timestamp      |-> ParseTimeUnixNano(dp.timeUnixNano),
         SessionID      |-> MapGet(allAttrs, "session.id"),
         UserID         |-> MapGet(allAttrs, "user.id"),
         OrganizationID |-> MapGet(allAttrs, "organization.id"),
         ServiceName    |-> MapGet(allAttrs, "service.name"),
         MetricName     |-> name,
         MetricValue    |-> value,
         Attributes     |-> allAttrs]

extractMetricRecords(metricMap, resourceAttrs) ==
    IF metricMap.name = "" THEN <<>>
    ELSE IF ~metricMap.hasSum THEN <<>>
    ELSE [i \in DOMAIN metricMap.dataPoints |->
             MetricRecordOf(metricMap.name, metricMap.dataPoints[i], resourceAttrs)]

\* The log attribute loop (processor.go:485-498): the whole value object is
\* stored under the key.
RECURSIVE LogAttrs(_, _)
LogAttrs(attributes, acc) ==
    IF attributes = <<>> THEN acc
    ELSE LET a == Head(attributes)
         IN  LogAttrs(Tail(attributes),
                 [k \in DOMAIN acc \cup {a.key} |-> IF k = a.key THEN a.value ELSE acc[k]])

extractLogRecord(logMap, resourceAttrs) ==
    [Timestamp      |-> ParseTimeUnixNano(logMap.timeUnixNano),
     SessionID      |-> MapGet(resourceAttrs, "session.id"),
     UserID         |-> MapGet(resourceAttrs, "user.id"),
     OrganizationID |-> MapGet(resourceAttrs, "organization.id"),
     ServiceName    |-> MapGet(resourceAttrs, "service.name"),
     SeverityText   |-> logMap.severityText,
     Body           |-> logMap.body,
     Attributes     |-> LogAttrs(logMap.attributes, [k \in {} |-> StringValue("")])]

(***************************************************************************)
(* aggregator/engine.go: the Engine.  A float64 is an integer number of    *)
(* quarters (1.25 is 5), so that int64(float) truncates and float64(int)   *)
(* scales.  Each cache is a function whose domain is the set of keys held. *)
(***************************************************************************)
ToFloat64(i) == i * 4
ToInt64(f) == IF f >= 0 THEN f \div 4 ELSE 0 - ((0 - f) \div 4)

\* a / float64(n): the quotient of a float64 by a count, kept as the pair so
\* that it is exact; the Go zero value 0.0 is 0/1.
Quotient(a, n) == [num |-> a, den |-> n]
NoQuotient == Quotient(0, 1)

NewEngine ==
    [sessionsCache      |-> [k \in {} |-> 0],
     sessionModelsCache |-> [k \in {} |-> 0],
     sessionToolsCache  |-> [k \in {} |-> 0],
     sessionCache       |-> [k \in {} |-> 0],
     modelStatsCache    |-> [k \in {} |-> 0],
     toolStatsCache     |-> [k \in {} |-> 0]]

\* m[k] = v on a Go map.
Put(m, k, v) == [x \in DOMAIN m \cup {k} |-> IF x = k THEN v ELSE m[x]]

\* &Session{SessionID, OrganizationID, UserID, StartTime, CreatedAt}; the other
\* fields are Go zero values.  ClientName stands for the six environment
\* strings, each set once from the first record that carries it.
NewSession(sessionID, orgID, userID, timestamp) ==
    [SessionID |-> sessionID, OrganizationID |-> orgID, UserID |-> userID,
     StartTime |-> timestamp, EndTime |-> ZeroTime, ClientName |-> "",
     TotalCostUSD |-> 0, TotalInputTokens |-> 0, TotalOutputTokens |-> 0,
     TotalCacheReadTokens |-> 0, TotalCacheCreationTokens |-> 0,
     ToolCallCount |-> 0, APIRequestCount |-> 0, APIErrorCount |-> 0,
     UserPromptCount |-> 0, TotalAPILatencyMS |-> 0,
     CreatedAt |-> now, UpdatedAt |-> ZeroTime]

getOrCreateSession(e, sessionID, orgID, userID, timestamp, clientName) ==
    LET c0 == e.sessionsCache
        c1 == IF sessionID \in DOMAIN c0 THEN c0
              ELSE Put(c0, sessionID, NewSession(sessionID, orgID, userID, timestamp))
        s1 == c1[sessionID]
        s2 == IF s1.ClientName = "" /\ clientName # ""
              THEN [s1 EXCEPT !.ClientName = clientName] ELSE s1
        s3 == [s2 EXCEPT !.EndTime = timestamp]
    IN  [e EXCEPT !.sessionsCache = Put(c1, sessionID, s3)]

NewSessionModel(sessionID, model) ==
    [SessionID |-> sessionID, Model |-> model, CostUSD |-> 0, RequestCount |-> 0,
     InputTokens |-> 0, OutputTokens |-> 0, CacheReadTokens |-> 0,
     CacheCreationTokens |-> 0, TotalLatencyMS |-> 0]

\* The get-or-create of updateSessionModel and updateModelStats on one of the
\* two nested maps, followed by updateFn.
UpdateNested(cache, sessionID, key, fresh, updateFn(_)) ==
    LET inner == IF sessionID \in DOMAIN cache THEN cache[sessionID] ELSE [k \in {} |-> 0]
        row   == IF key \in DOMAIN inner THEN inner[key] ELSE fresh
    IN  Put(cache, sessionID, Put(inner, key, updateFn(row)))

updateSessionModel(e, sessionID, model, updateFn(_)) ==
    [e EXCEPT !.sessionModelsCache =
        UpdateNested(@, sessionID, model, NewSessionModel(sessionID, model), updateFn)]

NewSessionModelStats(sessionID, model) ==
    [SessionID |-> sessionID, Model |-> model, CostUSD |-> 0, RequestCount |-> 0,
     InputTokens |-> 0, OutputTokens |-> 0, CacheReadTokens |-> 0,
     CacheCreationTokens |-> 0, TotalLatencyMS |-> 0, AvgLatencyMS |-> NoQuotient]

updateModelStats(e, sessionID, model, updateFn(_)) ==
    [e EXCEPT !.modelStatsCache =
        UpdateNested(@, sessionID, model, NewSessionModelStats(sessionID, model), updateFn)]

\* &SessionStats{...} of the legacy surface.
NewSessionStats(record) ==
    [SessionID |-> record.SessionID, UserID |-> record.UserID,
     OrganizationID |-> record.OrganizationID, ServiceName |-> record.ServiceName,
     StartTime |-> record.Timestamp, LastUpdateTime |-> ZeroTime,
     TotalCostUSD |-> 0, TotalInputTokens |-> 0, TotalOutputTokens |-> 0,
     TotalCacheReadTokens |-> 0, TotalCacheCreationTokens |-> 0,
     TotalActiveTimeSeconds |-> 0, APIRequestCount |-> 0, UserPromptCount |-> 0,
     ToolExecutionCount |-> 0, ToolSuccessCount |-> 0, ToolFailureCount |-> 0,
     AvgAPILatencyMS |-> NoQuotient, TotalAPILatencyMS |-> 0, ModelsUsed |-> <<>>,
     ToolsUsed |-> [k \in {} |-> 0], CreatedAt |-> now, UpdatedAt |-> ZeroTime]

getOrCreateStats(e, record) ==
    LET c0 == e.sessionCache
        c1 == IF record.SessionID \in DOMAIN c0 THEN c0
              ELSE Put(c0, record.SessionID, NewSessionStats(record))
    IN  [e EXCEPT !.sessionCache =
            [c1 EXCEPT ![record.SessionID].LastUpdateTime = record.Timestamp]]

\* ModelsUsed is a JSON array of distinct model names, here a sequence.
addToModelsUsed(e, sessionID, model) ==
    IF model \in Range(e.sessionCache[sessionID].ModelsUsed) THEN e
    ELSE [e EXCEPT !.sessionCache[sessionID].ModelsUsed = Append(@, model)]

\* case "claude_code.session.count" (engine.go:166-170).
FoldSessionCount(e, record) ==
    LET stats == e.sessionCache[record.SessionID]
    IN  IF stats.StartTime = ZeroTime \/ record.Timestamp < stats.StartTime
        THEN [e EXCEPT !.sessionCache[record.SessionID].StartTime = record.Timestamp]
        ELSE e

\* Mutant: the request is not counted.
AddCostOnly(row, cost) == [row EXCEPT !.CostUSD = @ + cost]

AddCost(row, cost) == [row EXCEPT !.CostUSD = @ + cost, !.RequestCount = @ + 1]

\* case "claude_code.cost.usage" (engine.go:172-196).
FoldCostUsage(e, record) ==
    LET sid   == record.SessionID
        v     == record.MetricValue
        cost  == IF v.t = "float64" THEN v.n
                 ELSE IF v.t = "int64" THEN ToFloat64(v.n) ELSE 0
        e1    == [e EXCEPT !.sessionCache[sid].TotalCostUSD = @ + cost,
                           !.sessionsCache[sid].TotalCostUSD = @ + cost]
        model == MapGet(record.Attributes, "model")
        Upd(row) == AddCost(row, cost)
    IN  IF model # "" /\ cost > 0
        THEN updateModelStats(updateSessionModel(e1, sid, model, Upd), sid, model, Upd)
        ELSE e1

\* The switch on tokenType applied to a per-model row (engine.go:227-236).
AddModelTokens(row, tokenType, tokenValue) ==
    CASE tokenType = "input"         -> [row EXCEPT !.InputTokens = @ + tokenValue]
      [] tokenType = "output"        -> [row EXCEPT !.OutputTokens = @ + tokenValue]
      [] tokenType = "cacheRead"     -> [row EXCEPT !.CacheReadTokens = @ + tokenValue]
      [] tokenType = "cacheCreation" -> [row EXCEPT !.CacheCreationTokens = @ + tokenValue]
      [] OTHER -> row

\* Mutant: a type that is none of the four counts as input.
AddSessionTokensDefaultInput(row, tokenType, tokenValue) ==
    CASE tokenType = "output"        -> [row EXCEPT !.TotalOutputTokens = @ + tokenValue]
      [] tokenType = "cacheRead"     -> [row EXCEPT !.TotalCacheReadTokens = @ + tokenValue]
      [] tokenType = "cacheCreation" -> [row EXCEPT !.TotalCacheCreationTokens = @ + tokenValue]
      [] OTHER -> [row EXCEPT !.TotalInputTokens = @ + tokenValue]

\* The switch on tokenType applied to a session row (engine.go:209-222).
AddSessionTokens(row, tokenType, tokenValue) ==
    CASE tokenType = "input"         -> [row EXCEPT !.TotalInputTokens = @ + tokenValue]
      [] tokenType = "output"        -> [row EXCEPT !.TotalOutputTokens = @ + tokenValue]
      [] tokenType = "cacheRead"     -> [row EXCEPT !.TotalCacheReadTokens = @ + tokenValue]
      [] tokenType = "cacheCreation" -> [row EXCEPT !.TotalCacheCreationTokens = @ + tokenValue]
      [] OTHER -> row

\* case "claude_code.token.usage" (engine.go:198-251).
FoldTokenUsage(e, record) ==
    LET sid        == record.SessionID
        tokenType  == MapGet(record.Attributes, "type")
        v          == record.MetricValue
        tokenValue == IF v.t = "int64" THEN v.n
                      ELSE IF v.t = "float64" THEN ToInt64(v.n) ELSE 0
        e1    == [e EXCEPT !.sessionCache[sid] = AddSessionTokens(@, tokenType, tokenValue),
                           !.sessionsCache[sid] = AddSessionTokens(@, tokenType, tokenValue)]
        model == MapGet(record.Attributes, "model")
        Upd(row) == AddModelTokens(row, tokenType, tokenValue)
    IN  IF model # "" /\ tokenValue > 0
        THEN updateModelStats(updateSessionModel(e1, sid, model, Upd), sid, model, Upd)
        ELSE e1

\* case "claude_code.active_time.total" (engine.go:253-259).
FoldActiveTime(e, record) ==
    LET v == record.MetricValue
        t == IF v.t = "float64" THEN v.n
             ELSE IF v.t = "int64" THEN ToFloat64(v.n) ELSE 0
    IN  [e EXCEPT !.sessionCache[record.SessionID].TotalActiveTimeSeconds = @ + t]

\* Engine.ProcessMetric (engine.go:122-266).
ProcessMetric(e, record) ==
    IF record.SessionID = "" THEN e
    ELSE
      LET sid == record.SessionID
          e1  == getOrCreateSession(e, sid, record.OrganizationID, record.UserID,
                                    record.Timestamp, record.ServiceName)
          e2  == getOrCreateStats(e1, record)
          e3  == CASE record.MetricName = "claude_code.session.count" -> FoldSessionCount(e2, record)
                   [] record.MetricName = "claude_code.cost.usage" -> FoldCostUsage(e2, record)
                   [] record.MetricName = "claude_code.token.usage" -> FoldTokenUsage(e2, record)
                   [] record.MetricName = "claude_code.active_time.total" -> FoldActiveTime(e2, record)
                   [] OTHER -> e2
          model == MapGet(record.Attributes, "model")
      IN  IF model # "" THEN addToModelsUsed(e3, sid, model) ELSE e3

RECURSIVE ProcessMetrics(_, _)
ProcessMetrics(e, records) ==
    IF records = <<>> THEN e
    ELSE ProcessMetrics(ProcessMetric(e, Head(records)), Tail(records))

(***************************************************************************)
(* aggregator/engine.go: log records.  The Attributes of a LogRecord map a *)
(* key to its tagged value object; the typed accessors read it.  Every     *)
(* JSON number is a float64.                                               *)
(***************************************************************************)
Bool(b) == [t |-> "bool", s |-> "", n |-> IF b THEN 1 ELSE 0]
BoolValue(b) == [tag |-> "boolValue", prim |-> Bool(b)]

\* fmt.Sscanf(s, "%f", &f) on the spellings Sscanf_d knows.
Sscanf_f(s) == ToFloat64(Sscanf_d(s))

\* An attribute that is a bare JSON value, not a value object.
Raw(prim) == [tag |-> "raw", prim |-> prim]

extractFloat(attrs, key) ==
    IF key \notin DOMAIN attrs THEN 0
    ELSE LET v == attrs[key]
         IN  IF v.tag = "raw"
             THEN IF v.prim.t = "num" THEN v.prim.n
                  ELSE IF v.prim.t = "str" THEN Sscanf_f(v.prim.s) ELSE 0
             ELSE IF v.tag = "doubleValue" /\ v.prim.t = "num" THEN v.prim.n
             ELSE IF v.tag = "intValue" /\ v.prim.t = "num" THEN v.prim.n
             ELSE IF HasString(v, "stringValue") THEN Sscanf_f(v.prim.s)
             ELSE 0

extractString(attrs, key) ==
    IF key \notin DOMAIN attrs THEN ""
    ELSE IF attrs[key].tag = "raw"
    THEN IF attrs[key].prim.t = "str" THEN attrs[key].prim.s ELSE ""
    ELSE IF HasString(attrs[key], "stringValue") THEN attrs[key].prim.s ELSE ""

extractInt(attrs, key) ==
    IF key \notin DOMAIN attrs THEN 0
    ELSE LET v == attrs[key]
         IN  IF v.tag = "raw"
             THEN IF v.prim.t = "num" THEN ToInt64(v.prim.n)
                  ELSE IF v.prim.t = "str" THEN Sscanf_d(v.prim.s) ELSE 0
             ELSE IF v.tag = "intValue" /\ v.prim.t = "num" THEN ToInt64(v.prim.n)
             ELSE IF HasString(v, "stringValue") THEN Sscanf_d(v.prim.s)
             ELSE 0

extractBool(attrs, key) ==
    IF key \notin DOMAIN attrs THEN FALSE
    ELSE LET v == attrs[key]
         IN  IF v.tag = "raw"
             THEN IF v.prim.t = "bool" THEN v.prim.n = 1
                  ELSE IF v.prim.t = "str" THEN v.prim.s \in {"true", "1"} ELSE FALSE
             ELSE IF v.tag = "boolValue" /\ v.prim.t = "bool" THEN v.prim.n = 1
             ELSE IF HasString(v, "stringValue") THEN v.prim.s \in {"true", "1"}
             ELSE FALSE

\* The markers ProcessLog looks for, in the order it tests them.
Markers ==
    {"claude_code.api_request", "claude_code.api_error", "claude_code.user_prompt",
     "claude_code.tool_decision", "claude_code.tool_result"}

\* The markers that occur in a body text.
MarkersIn(s) ==
    CASE s \in Markers -> {s}
      [] s = "claude_code.tool_result after claude_code.api_error"
           -> {"claude_code.tool_result", "claude_code.api_error"}
      [] OTHER -> {}

containsString(s, substr) == substr \in MarkersIn(s)

NewSessionTool(sessionID, toolName) ==
    [SessionID |-> sessionID, ToolName |-> toolName, CallCount |-> 0,
     SuccessCount |-> 0, FailureCount |-> 0, TotalExecutionTimeMS |-> 0,
     AutoApprovedCount |-> 0, UserApprovedCount |-> 0, RejectedCount |-> 0,
     TotalResultSizeBytes |-> 0]

updateSessionTool(e, sessionID, toolName, updateFn(_)) ==
    [e EXCEPT !.sessionToolsCache =
        UpdateNested(@, sessionID, toolName, NewSessionTool(sessionID, toolName), updateFn)]

NewSessionToolStats(sessionID, toolName) ==
    [SessionID |-> sessionID, ToolName |-> toolName, ExecutionCount |-> 0,
     SuccessCount |-> 0, FailureCount |-> 0, TotalDurationMS |-> 0,
     AvgDurationMS |-> NoQuotient, MinDurationMS |-> 0, MaxDurationMS |-> 0]

updateToolStats(e, sessionID, toolName, updateFn(_)) ==
    [e EXCEPT !.toolStatsCache =
        UpdateNested(@, sessionID, toolName, NewSessionToolStats(sessionID, toolName),
                     updateFn)]

\* tools[toolName]++ on the legacy ToolsUsed JSON object.
addToToolsUsed(e, sessionID, toolName) ==
    [e EXCEPT !.sessionCache[sessionID].ToolsUsed =
        Put(@, toolName, IF toolName \in DOMAIN @ THEN @[toolName] + 1 ELSE 1)]

\* updateFn of the api_request case on a session_models row (engine.go:319-321).
AddLatency(row, durationMS) == [row EXCEPT !.TotalLatencyMS = @ + durationMS]

\* updateFn of the api_request case on a legacy model row (engine.go:323-328).
AddLatencyStats(row, durationMS) ==
    IF row.RequestCount > 0
    THEN [row EXCEPT !.TotalLatencyMS = @ + durationMS,
                     !.AvgLatencyMS = Quotient(row.TotalLatencyMS + durationMS,
                                               row.RequestCount)]
    ELSE [row EXCEPT !.TotalLatencyMS = @ + durationMS]

\* The claude_code.api_request branch (engine.go:305-330).
FoldAPIRequest(e, record) ==
    LET sid        == record.SessionID
        durationMS == extractFloat(record.Attributes, "duration_ms")
        model      == extractString(record.Attributes, "model")
        stats      == e.sessionCache[sid]
        e1 == [e EXCEPT !.sessionCache[sid].APIRequestCount = @ + 1,
                        !.sessionsCache[sid].APIRequestCount = @ + 1]
        e2 == IF durationMS > 0
              THEN [e1 EXCEPT !.sessionCache[sid].TotalAPILatencyMS = @ + durationMS,
                              !.sessionCache[sid].AvgAPILatencyMS =
                                  Quotient(stats.TotalAPILatencyMS + durationMS,
                                           stats.APIRequestCount + 1),
                              !.sessionsCache[sid].TotalAPILatencyMS = @ + durationMS]
              ELSE e1
        UpdModel(row) == AddLatency(row, durationMS)
        UpdStats(row) == AddLatencyStats(row, durationMS)
    IN  IF model # "" /\ durationMS > 0
        THEN updateModelStats(updateSessionModel(e2, sid, model, UpdModel),
                              sid, model, UpdStats)
        ELSE e2

\* The claude_code.user_prompt branch on the caches (engine.go:335-337).
FoldUserPrompt(e, record) ==
    [e EXCEPT !.sessionCache[record.SessionID].UserPromptCount = @ + 1,
              !.sessionsCache[record.SessionID].UserPromptCount = @ + 1]

\* The claude_code.tool_decision branch (engine.go:353-357).
FoldToolDecision(e, record) ==
    LET toolName == extractString(record.Attributes, "tool_name")
    IN  IF toolName # "" THEN addToToolsUsed(e, record.SessionID, toolName) ELSE e

\* Mutant: the maximum is the last duration seen.
AddToolStatsMaxLast(ts, success, durationMS) ==
    LET counted == [ts EXCEPT !.ExecutionCount = @ + 1,
                              !.SuccessCount = IF success THEN @ + 1 ELSE @,
                              !.FailureCount = IF success THEN @ ELSE @ + 1]
    IN  [counted EXCEPT !.TotalDurationMS = @ + durationMS,
                        !.AvgDurationMS = Quotient(counted.TotalDurationMS + durationMS,
                                                   counted.ExecutionCount),
                        !.MinDurationMS = IF @ = 0 \/ durationMS < @ THEN durationMS ELSE @,
                        !.MaxDurationMS = durationMS]

\* updateFn of the tool_result case on a legacy tool row (engine.go:384-400).
AddToolStats(ts, success, durationMS) ==
    LET counted == [ts EXCEPT !.ExecutionCount = @ + 1,
                              !.SuccessCount = IF success THEN @ + 1 ELSE @,
                              !.FailureCount = IF success THEN @ ELSE @ + 1]
    IN  IF durationMS > 0
        THEN [counted EXCEPT !.TotalDurationMS = @ + durationMS,
                             !.AvgDurationMS = Quotient(counted.TotalDurationMS + durationMS,
                                                        counted.ExecutionCount),
                             !.MinDurationMS = IF @ = 0 \/ durationMS < @
                                               THEN durationMS ELSE @,
                             !.MaxDurationMS = IF durationMS > @ THEN durationMS ELSE @]
        ELSE counted

\* updateFn of the tool_result case on a session_tools row (engine.go:403-426).
\* Mutant: only the first call of a tool adds its duration.
AddSessionToolFirstDuration(st, success, durationMS, decisionType, decisionSource, resultSizeBytes) ==
    [st EXCEPT !.CallCount = @ + 1,
               !.SuccessCount = IF success THEN @ + 1 ELSE @,
               !.FailureCount = IF success THEN @ ELSE @ + 1,
               !.TotalExecutionTimeMS =
                   IF durationMS > 0 /\ st.CallCount = 0 THEN @ + durationMS ELSE @,
               !.RejectedCount = IF decisionType = "reject" THEN @ + 1 ELSE @,
               !.AutoApprovedCount =
                   IF decisionType # "reject" /\ decisionSource = "config" THEN @ + 1 ELSE @,
               !.UserApprovedCount =
                   IF decisionType # "reject" /\ decisionSource # "config" THEN @ + 1 ELSE @,
               !.TotalResultSizeBytes = @ + resultSizeBytes]

\* Mutant: a call whose decision source is config is auto-approved whatever
\* its decision type.
AddSessionToolConfigFirst(st, success, durationMS, decisionType, decisionSource, resultSizeBytes) ==
    [st EXCEPT !.CallCount = @ + 1,
               !.SuccessCount = IF success THEN @ + 1 ELSE @,
               !.FailureCount = IF success THEN @ ELSE @ + 1,
               !.TotalExecutionTimeMS = IF durationMS > 0 THEN @ + durationMS ELSE @,
               !.RejectedCount = IF decisionType = "reject" THEN @ + 1 ELSE @,
               !.AutoApprovedCount = IF decisionSource = "config" THEN @ + 1 ELSE @,
               !.UserApprovedCount =
                   IF decisionType # "reject" /\ decisionSource # "config" THEN @ + 1 ELSE @,
               !.TotalResultSizeBytes = @ + resultSizeBytes]

AddSessionTool(st, success, durationMS, decisionType, decisionSource, resultSizeBytes) ==
    [st EXCEPT !.CallCount = @ + 1,
               !.SuccessCount = IF success THEN @ + 1 ELSE @,
               !.FailureCount = IF success THEN @ ELSE @ + 1,
               !.TotalExecutionTimeMS = IF durationMS > 0 THEN @ + durationMS ELSE @,
               !.RejectedCount = IF decisionType = "reject" THEN @ + 1 ELSE @,
               !.AutoApprovedCount =
                   IF decisionType # "reject" /\ decisionSource = "config" THEN @ + 1 ELSE @,
               !.UserApprovedCount =
                   IF decisionType # "reject" /\ decisionSource # "config" THEN @ + 1 ELSE @,
               !.TotalResultSizeBytes = @ + resultSizeBytes]

\* The claude_code.tool_result branch (engine.go:359-427).
FoldToolResult(e, record) ==
    LET sid      == record.SessionID
        attrs    == record.Attributes
        success  == extractBool(attrs, "success")
        toolName == extractString(attrs, "tool_name")
        durationMS == extractFloat(attrs, "duration_ms")
        e1 == [e EXCEPT !.sessionCache[sid].ToolExecutionCount = @ + 1,
                        !.sessionCache[sid].ToolSuccessCount = IF success THEN @ + 1 ELSE @,
                        !.sessionCache[sid].ToolFailureCount = IF success THEN @ ELSE @ + 1,
                        !.sessionsCache[sid].ToolCallCount = @ + 1]
        UpdStats(ts) == AddToolStats(ts, success, durationMS)
        UpdTool(st)  == AddSessionTool(st, success, durationMS,
                                       extractString(attrs, "decision_type"),
                                       extractString(attrs, "decision_source"),
                                       extractInt(attrs, "tool_result_size_bytes"))
    IN  IF toolName # ""
        THEN updateSessionTool(
                 updateToolStats(addToToolsUsed(e1, sid, toolName), sid, toolName, UpdStats),
                 sid, toolName, UpdTool)
        ELSE e1

\* Mutant: a record without a session id is folded like any other.
ProcessLogUnguarded(e, record) ==
    FoldUserPrompt(getOrCreateStats(
        getOrCreateSession(e, record.SessionID, record.OrganizationID, record.UserID,
                           record.Timestamp, record.ServiceName), record), record)

\* Engine.ProcessLog on the caches (engine.go:269-429).
ProcessLog(e, record) ==
    IF record.SessionID = "" THEN e
    ELSE
      LET sid == record.SessionID
          e2  == getOrCreateStats(
                     getOrCreateSession(e, sid, record.OrganizationID, record.UserID,
                                        record.Timestamp, record.ServiceName), record)
      IN  IF containsString(record.Body, "claude_code.api_request")
          THEN FoldAPIRequest(e2, record)
          ELSE IF containsString(record.Body, "claude_code.api_error")
          THEN [e2 EXCEPT !.sessionsCache[sid].APIErrorCount = @ + 1]
          ELSE IF containsString(record.Body, "claude_code.user_prompt")
          THEN FoldUserPrompt(e2, record)
          ELSE IF containsString(record.Body, "claude_code.tool_decision")
          THEN FoldToolDecision(e2, record)
          ELSE IF containsString(record.Body, "claude_code.tool_result")
          THEN FoldToolResult(e2, record)
          ELSE e2

\* Mutant: a redacted prompt is stored like any other.
PromptsOfRedacted(record) ==
    LET promptText == extractString(record.Attributes, "prompt")
    IN  IF record.SessionID # "" /\ containsString(record.Body, "claude_code.user_prompt")
           /\ promptText # ""
        THEN {[SessionID |-> record.SessionID, PromptText |-> promptText,
               PromptLength |-> extractInt(record.Attributes, "prompt_length"),
               Timestamp |-> record.Timestamp]}
        ELSE {}

\* The prompts ProcessLog inserts through the store while folding the record
\* (engine.go:339-350): none, or one.
PromptsOf(record) ==
    LET promptText == extractString(record.Attributes, "prompt")
    IN  IF /\ record.SessionID # ""
           /\ ~containsString(record.Body, "claude_code.api_request")
           /\ ~containsString(record.Body, "claude_code.api_error")
           /\ containsString(record.Body, "claude_code.user_prompt")
           /\ promptText # "" /\ promptText # "<REDACTED>"
        THEN {[SessionID |-> record.SessionID, PromptText |-> promptText,
               PromptLength |-> extractInt(record.Attributes, "prompt_length"),
               Timestamp |-> record.Timestamp]}
        ELSE {}

\* Engine.ProcessTrace (engine.go:432-460): the legacy session entry only.
ProcessTrace(e, record) ==
    IF record.SessionID = "" THEN e ELSE getOrCreateStats(e, record)

(***************************************************************************)
(* aggregator/processor.go: lines, processLine and the metric handler.     *)
(*                                                                         *)
(* A line of the role file is [form, env]:                                 *)
(*   blank     whitespace only                                             *)
(*   junk      {not valid json}                                            *)
(*   wrapped   {"data": "<the envelope env, JSON-encoded>"}                *)
(*   direct    the envelope env itself                                     *)
(*   wrapnum   {"data": 5}                                                 *)
(*   wrapjunk  {"data": "not json"}                                        *)
(*   fragment  the tail of a line the read started in the middle of        *)
(***************************************************************************)
NoEnvelope == [hasResourceMetrics |-> FALSE, resourceMetrics |-> <<>>]
Line(form, env) == [form |-> form, env |-> env]

\* bufio.MaxScanTokenSize: the scanner of ProcessFile keeps the default buffer,
\* and a line of this many bytes does not fit in it.
MaxScanTokenSize == 65536

\* len(line): the bytes of the line without its newline.
LineLen(line) ==
    CASE line.form = "blank"    -> 1
      [] line.form = "junk"     -> 2
      [] line.form = "direct"   -> 3
      [] line.form = "wrapped"  -> 4
      [] line.form = "wrapnum"  -> 2
      [] line.form = "wrapjunk" -> 3
      [] line.form = "long"     -> MaxScanTokenSize

\* json.Unmarshal of the line into map[string]interface{}: whether it parsed,
\* and what the map holds under "data".
UnmarshalWrapper(line) ==
    CASE line.form \in {"junk", "fragment"} -> [ok |-> FALSE, data |-> "absent"]
      [] line.form = "wrapnum"  -> [ok |-> TRUE, data |-> "number"]
      [] line.form = "direct"   -> [ok |-> TRUE, data |-> "absent"]
      [] line.form = "wrapjunk" -> [ok |-> TRUE, data |-> "junk-string"]
      [] line.form = "wrapped"  -> [ok |-> TRUE, data |-> "envelope-string"]

\* processMetricData (processor.go:197-247): every record of the envelope,
\* in order, is handed to Engine.ProcessMetric.
RecordsOfMetric(rm) ==
    LET attrs == extractResourceAttributes(rm)
        OfMetric(m) == extractMetricRecords(m, attrs)
        OfScope(sm) == FlatMap(OfMetric, sm.metrics)
    IN  FlatMap(OfScope, rm.scopeMetrics)

MetricRecordsOf(data) ==
    IF ~data.hasResourceMetrics THEN <<>>
    ELSE FlatMap(RecordsOfMetric, data.resourceMetrics)

processMetricData(e, data) ==
    [err |-> FALSE, engine |-> ProcessMetrics(e, MetricRecordsOf(data)),
     records |-> MetricRecordsOf(data)]

\* processLine (processor.go:164-194) on metrics.jsonl: the error it returns
\* and the Engine after it.
processLine(e, line) ==
    LET wrapper == UnmarshalWrapper(line)
        failed  == [err |-> TRUE, engine |-> e, records |-> <<>>]
    IN  IF ~wrapper.ok THEN failed
        ELSE IF wrapper.data \notin {"junk-string", "envelope-string"} THEN failed
        ELSE IF wrapper.data = "junk-string" THEN failed
        ELSE processMetricData(e, line.env)

(***************************************************************************)
(* aggregator/store.go: the processing_state row of the role file.         *)
(***************************************************************************)
NoRow == [present |-> FALSE, LastByteOffset |-> 0, FileSizeBytes |-> 0, Inode |-> 0]

\* Store.GetProcessingState: the row, or the zero-valued state when absent.
GetProcessingState(row) == [row EXCEPT !.present = TRUE]

\* Store.UpdateProcessingState: insert, or overwrite every column.
UpdateProcessingState(row, byteOffset, fileSize, inode) ==
    [present |-> TRUE, LastByteOffset |-> byteOffset, FileSizeBytes |-> fileSize,
     Inode |-> inode]

(***************************************************************************)
(* aggregator/processor.go: ProcessFile.                                   *)
(***************************************************************************)
CheckpointEvery == 100

\* The size of a file holding `lines`: len(line)+1 for each, summed by halves.
RECURSIVE ByteSize(_)
ByteSize(lines) ==
    IF lines = <<>> THEN 0
    ELSE IF Len(lines) = 1 THEN LineLen(lines[1]) + 1
    ELSE ByteSize(SubSeq(lines, 1, Len(lines) \div 2))
         + ByteSize(SubSeq(lines, Len(lines) \div 2 + 1, Len(lines)))

\* file.Seek(offset, 0) and bufio.Scanner: the tokens read from byte `offset`
\* of a file holding `lines`, whose first line starts at byte `start`.  A read
\* that starts inside a line yields the rest of that line.
RECURSIVE Scan(_, _, _)
Scan(lines, start, offset) ==
    IF lines = <<>> THEN <<>>
    ELSE IF Len(lines) = 1
    THEN LET l   == lines[1]
             end == start + LineLen(l)
         IN  IF offset > end THEN <<>>
             ELSE IF offset <= start
             THEN <<[line |-> l, len |-> LineLen(l), start |-> start]>>
             ELSE <<[line |-> IF l.form = "blank" \/ offset = end
                              THEN Line("blank", NoEnvelope)
                              ELSE Line("fragment", NoEnvelope),
                     len |-> end - offset, start |-> offset]>>
    ELSE LET front == SubSeq(lines, 1, Len(lines) \div 2)
         IN  Scan(front, start, offset)
             \o Scan(SubSeq(lines, Len(lines) \div 2 + 1, Len(lines)),
                     start + ByteSize(front), offset)

\* Mutant: the cursor holds the bytes read by the pass, not the position.
WriteCursorRelative(row, currentOffset, size) ==
    UpdateProcessingState(row, currentOffset - row.LastByteOffset, size, row.Inode)

\* The cursor write of ProcessFile (processor.go:142, 154): the call names the
\* offset and the size and no inode, so the inode column keeps its value.
WriteCursor(row, currentOffset, size) ==
    UpdateProcessingState(row, currentOffset, size, row.Inode)

\* Mutant: a blank line is skipped before its bytes are counted.
ScanStepBlankUncounted(acc, tok, size) ==
    IF tok.line.form = "blank"
    THEN [acc EXCEPT !.results = Append(@, "blank")]
    ELSE LET n  == acc.newLinesProcessed + 1
             off == acc.currentOffset + tok.len + 1
         IN  Only({[currentOffset     |-> off,
                    newLinesProcessed |-> n,
                    engine            |-> r.engine,
                    row               |-> acc.row,
                    results           |-> Append(acc.results, IF r.err THEN "err" ELSE "ok"),
                    records           |-> acc.records \o r.records]
                   : r \in {processLine(acc.engine, tok.line)}})

\* One iteration of the scan loop (processor.go:123-146).
ScanStep(acc, tok, size) ==
    IF tok.line.form = "blank"
    THEN [acc EXCEPT !.currentOffset = @ + tok.len + 1,
                     !.results = Append(@, "blank")]
    ELSE LET n  == acc.newLinesProcessed + 1
             off == acc.currentOffset + tok.len + 1
         IN  Only({[currentOffset     |-> off,
                    newLinesProcessed |-> n,
                    engine            |-> r.engine,
                    row               |-> IF n % CheckpointEvery = 0
                                          THEN WriteCursor(acc.row, off, size)
                                          ELSE acc.row,
                    results           |-> Append(acc.results, IF r.err THEN "err" ELSE "ok"),
                    records           |-> acc.records \o r.records]
                   : r \in {processLine(acc.engine, tok.line)}})

\* Mutant: the loop ends at the first line processLine rejects.
RECURSIVE ScanLoopAbortOnError(_, _, _)
ScanLoopAbortOnError(acc, tokens, size) ==
    IF tokens = <<>> THEN acc
    ELSE Only({IF next.results[Len(next.results)] = "err" THEN acc
               ELSE ScanLoopAbortOnError(next, Tail(tokens), size)
               : next \in {ScanStep(acc, Head(tokens), size)}})

RECURSIVE ScanLoop(_, _, _)
ScanLoop(acc, tokens, size) ==
    IF tokens = <<>> THEN acc
    ELSE Only({ScanLoop(next, Tail(tokens), size)
               : next \in {ScanStep(acc, Head(tokens), size)}})

\* Mutant: any change of size counts as a rotation.
RotatedOnChange(fileInfo, state) == fileInfo.Size # state.FileSizeBytes

\* The rotation test of ProcessFile (processor.go:93).
Rotated(fileInfo, state) == fileInfo.Size < state.FileSizeBytes

\* ProcessFile from the rotation test to the final state update
\* (processor.go:92-160), on a file that exists: `lines` is what the file
\* holds while it is read, `fileInfo` what os.Stat returned before.
RunPass(e, row, fileInfo, lines) ==
    LET st0    == GetProcessingState(row)
        reset  == Rotated(fileInfo, st0)
        st     == IF reset THEN [st0 EXCEPT !.LastByteOffset = 0, !.FileSizeBytes = 0]
                  ELSE st0
        tokens == Scan(lines, 0, st.LastByteOffset)
        acc0   == [currentOffset |-> st.LastByteOffset, newLinesProcessed |-> 0,
                   engine |-> e, row |-> row, results |-> <<>>, records |-> <<>>]
    IN  IF fileInfo.Size <= st.FileSizeBytes
        THEN [outcome |-> "nonew", reset |-> reset, from |-> st.LastByteOffset,
              tokens |-> <<>>, results |-> <<>>, records |-> <<>>, engine |-> e,
              row |-> row, wrote |-> FALSE]
        ELSE Only({[outcome |-> "read", reset |-> reset, from |-> st.LastByteOffset,
                    tokens |-> tokens, results |-> acc.results, records |-> acc.records,
                    engine |-> acc.engine,
                    row |-> IF acc.newLinesProcessed > 0
                            THEN WriteCursor(acc.row, acc.currentOffset, fileInfo.Size)
                            ELSE acc.row,
                    wrote |-> acc.newLinesProcessed > 0]
                   : acc \in {ScanLoop(acc0, tokens, fileInfo.Size)}})

(***************************************************************************)
(* aggregator/store.go: the aggregate tables.  A table is a function from  *)
(* its key to its row; an upsert returns the table after it.               *)
(***************************************************************************)
Second == 1000000000

\* time.Time.Unix(): whole seconds; the zero time stays before every instant.
Unix(t) == t \div Second

NullTime == "NULL"

NewStore ==
    [sessions            |-> [k \in {} |-> 0],
     session_models      |-> [k \in {} |-> 0],
     session_tools       |-> [k \in {} |-> 0],
     session_prompts     |-> {},
     session_stats       |-> [k \in {} |-> 0],
     session_model_stats |-> [k \in {} |-> 0],
     session_tool_stats  |-> [k \in {} |-> 0]]

\* Store.UpsertSession (store.go:636-670).  The columns api_request_count,
\* api_error_count, user_prompt_count and total_api_latency_ms of the table
\* are not named by the statement and keep their default.  CreatedAt and
\* UpdatedAt are clock readings in whole seconds, which is what Unix() keeps.
UpsertSession(table, session) ==
    LET k       == session.SessionID
        endTime == IF session.EndTime = ZeroTime THEN NullTime ELSE Unix(session.EndTime)
    IN  IF k \in DOMAIN table
        THEN [table EXCEPT ![k].EndTime = endTime,
                           ![k].UpdatedAt = session.UpdatedAt,
                           ![k].TotalCostUSD = session.TotalCostUSD,
                           ![k].TotalInputTokens = session.TotalInputTokens,
                           ![k].TotalOutputTokens = session.TotalOutputTokens,
                           ![k].TotalCacheReadTokens = session.TotalCacheReadTokens,
                           ![k].TotalCacheCreationTokens = session.TotalCacheCreationTokens,
                           ![k].ToolCallCount = session.ToolCallCount]
        ELSE Put(table, k,
                 [SessionID |-> k, OrganizationID |-> session.OrganizationID,
                  UserID |-> session.UserID, StartTime |-> Unix(session.StartTime),
                  EndTime |-> endTime,
                  TotalCostUSD |-> session.TotalCostUSD,
                  TotalInputTokens |-> session.TotalInputTokens,
                  TotalOutputTokens |-> session.TotalOutputTokens,
                  TotalCacheReadTokens |-> session.TotalCacheReadTokens,
                  TotalCacheCreationTokens |-> session.TotalCacheCreationTokens,
                  ToolCallCount |-> session.ToolCallCount,
                  APIRequestCount |-> 0, APIErrorCount |-> 0, UserPromptCount |-> 0,
                  TotalAPILatencyMS |-> 0,
                  CreatedAt |-> session.CreatedAt, UpdatedAt |-> session.UpdatedAt])

\* upsert_session_model: every column of session_models is written, on insert
\* and on conflict.
UpsertSessionModel(table, model) == Put(table, <<model.SessionID, model.Model>>, model)

\* Mutant: on conflict the counters of the row are added to.
UpsertSessionToolAdding(table, tool) ==
    LET k == <<tool.SessionID, tool.ToolName>>
    IN  IF k \in DOMAIN table
        THEN Put(table, k, [tool EXCEPT !.CallCount = @ + table[k].CallCount])
        ELSE Put(table, k, tool)

\* Store.UpsertSessionTool (store.go:673-699): every column is written.
UpsertSessionTool(table, tool) == Put(table, <<tool.SessionID, tool.ToolName>>, tool)

\* Store.UpsertSessionStats (store.go:116-164): on conflict the identity
\* columns, start_time and created_at stay.
UpsertSessionStats(table, stats) ==
    LET k   == stats.SessionID
        row == [stats EXCEPT !.StartTime = Unix(@), !.LastUpdateTime = Unix(@)]
    IN  IF k \in DOMAIN table
        THEN Put(table, k, [row EXCEPT !.UserID = table[k].UserID,
                                       !.OrganizationID = table[k].OrganizationID,
                                       !.ServiceName = table[k].ServiceName,
                                       !.StartTime = table[k].StartTime,
                                       !.CreatedAt = table[k].CreatedAt])
        ELSE Put(table, k, row)

\* Store.UpsertSessionModelStats (store.go:167-193).
UpsertSessionModelStats(table, modelStats) ==
    Put(table, <<modelStats.SessionID, modelStats.Model>>, modelStats)

\* Store.UpsertSessionToolStats (store.go:196-220).
UpsertSessionToolStats(table, toolStats) ==
    Put(table, <<toolStats.SessionID, toolStats.ToolName>>, toolStats)

\* insert_session_prompt: unique on (session_id, timestamp); a duplicate is
\* ignored.
InsertSessionPrompt(table, prompt) ==
    IF \E p \in table : p.SessionID = prompt.SessionID /\ p.Timestamp = Unix(prompt.Timestamp)
    THEN table
    ELSE table \cup {[prompt EXCEPT !.Timestamp = Unix(@)]}

\* The entries of a two-level cache map.
Entries(cache) == UNION {{cache[s][k] : k \in DOMAIN cache[s]} : s \in DOMAIN cache}

\* for _, x := range entries { store.Upsert(x) } with every upsert succeeding.
RECURSIVE UpsertEach(_, _, _)
UpsertEach(Upsert(_, _), table, entries) ==
    IF entries = {} THEN table
    ELSE LET x == CHOOSE y \in entries : TRUE
         IN  UpsertEach(Upsert, Upsert(table, x), entries \ {x})

(***************************************************************************)
(* The role file and the processor's passes over it.                       *)
(***************************************************************************)
DataPoint(attrs, time, asInt, asDouble) ==
    [attributes |-> attrs, timeUnixNano |-> time, asInt |-> asInt, asDouble |-> asDouble]
SumMetric(name, dataPoints) == [name |-> name, hasSum |-> TRUE, dataPoints |-> dataPoints]
Envelope(resource, metrics) ==
    [hasResourceMetrics |-> TRUE,
     resourceMetrics |-> <<[hasResource |-> TRUE, resource |-> resource,
                            scopeMetrics |-> <<[metrics |-> metrics]>>]>>]

\* One export of the client: a cost of 1.25 USD on model m1 in session s1.
EnvCost ==
    Envelope(<<Attr("service.name", StringValue("claude-code"))>>,
             <<SumMetric("claude_code.cost.usage",
                 <<DataPoint(<<Attr("session.id", StringValue("s1")),
                               Attr("model", StringValue("m1"))>>,
                             Str("1"), Absent, Num(5))>>)>>)

LineChoices ==
    {Line("blank", NoEnvelope), Line("junk", NoEnvelope),
     Line("wrapped", EnvCost), Line("direct", EnvCost)}

\* No goroutine holds Engine.cacheMutex and no fold is in progress.
NoFold == [busy |-> FALSE]
Unlocked == [holders |-> {}, fold |-> NoFold]

\* No FlushCache call yet.
NoFlush == [done |-> FALSE, failing |-> {}, folds |-> 0, again |-> FALSE]

\* main waits for the signal, the processor goroutine waits for its ticker
\* and no statement has been issued on a closed database.
NoScan == [tokens |-> <<>>, currentOffset |-> 0, newLinesProcessed |-> 0, size |-> 0]

Serving == [main |-> "serving", processor |-> "waiting", scan |-> NoScan, late |-> {}]

NoPass ==
    [outcome |-> "none", prev |-> NoRow, statSize |-> 0, statInode |-> 0,
     since |-> "grown", lines |-> <<>>, reset |-> FALSE, from |-> 0,
     tokens |-> <<>>, results |-> <<>>, records |-> <<>>, wrote |-> FALSE]

Init ==
    /\ file = [exists |-> FALSE, inode |-> 0, lines |-> <<>>, since |-> "grown"]
    /\ processing_state = NoRow
    /\ engine = NewEngine
    /\ pass = NoPass
    /\ passes = 0
    /\ history = <<>>
    /\ xin = [op |-> "none"]
    /\ xout = [op |-> "none", records |-> <<>>]
    /\ store = NewStore
    /\ logs = <<>>
    /\ traces = <<>>
    /\ now = 0
    /\ locking = Unlocked
    /\ lastFlush = NoFlush
    /\ shutdown = Serving

\* FileWriter.WriteJSON (O_APPEND|O_CREATE): the ingest handler appends one line,
\* creating the file under a new inode when the path does not exist.
AppendLine(l) ==
    /\ passes < MaxPasses
    /\ Len(file.lines) < MaxLines
    /\ file' = IF file.exists
               THEN [file EXCEPT !.lines = Append(@, l)]
               ELSE [file EXCEPT !.exists = TRUE, !.inode = @ + 1, !.lines = <<l>>]
    /\ pass' = NoPass
    /\ UNCHANGED <<processing_state, engine, passes, history, xin, xout, aux>>

\* Log rotation by rename: the path is free until the next write creates it.
Rotate ==
    /\ passes < MaxPasses
    /\ file.exists
    /\ file.inode < MaxInode
    /\ file' = [file EXCEPT !.exists = FALSE, !.lines = <<>>, !.since = "rotated"]
    /\ pass' = NoPass
    /\ UNCHANGED <<processing_state, engine, passes, history, xin, xout, aux>>

\* Log rotation by copy-truncate: same inode, no bytes.
Truncate ==
    /\ passes < MaxPasses
    /\ file.exists
    /\ file.lines # <<>>
    /\ file' = [file EXCEPT !.lines = <<>>,
                            !.since = IF @ = "rotated" THEN @ ELSE "truncated"]
    /\ pass' = NoPass
    /\ UNCHANGED <<processing_state, engine, passes, history, xin, xout, aux>>

\* Store.UpdateProcessingState called with the file's size and inode, as the
\* rotation tests do to stand for a file processed to its end.
SimulateProcessed ==
    /\ passes < MaxPasses
    /\ file.exists
    /\ processing_state # UpdateProcessingState(processing_state, ByteSize(file.lines),
                                                ByteSize(file.lines), file.inode)
    /\ processing_state' = UpdateProcessingState(processing_state, ByteSize(file.lines),
                                                 ByteSize(file.lines), file.inode)
    /\ file' = [file EXCEPT !.since = "grown"]
    /\ pass' = NoPass
    /\ UNCHANGED <<engine, passes, history, xin, xout, aux>>

\* Processor.ProcessFile (processor.go:74-161).  `extra` is what the ingest
\* handler appends between os.Stat and the end of the read.
ProcessFile(extra) ==
    /\ passes < MaxPasses
    /\ passes' = passes + 1
    /\ Len(file.lines) + Len(extra) <= MaxLines
    /\ UNCHANGED <<xin, xout, aux>>
    /\ IF ~file.exists
       THEN /\ extra = <<>>
            /\ pass' = [NoPass EXCEPT !.outcome = "missing", !.prev = processing_state,
                                      !.since = file.since]
            /\ UNCHANGED <<file, processing_state, engine, history>>
       ELSE LET fileInfo == [Size |-> ByteSize(file.lines), Inode |-> file.inode]
                lines    == file.lines \o extra
            IN  \E run \in {RunPass(engine, processing_state, fileInfo, lines)} :
                /\ run.outcome = "nonew" => extra = <<>>
                /\ pass' = [outcome |-> run.outcome, prev |-> processing_state,
                            statSize |-> fileInfo.Size, statInode |-> fileInfo.Inode,
                            since |-> file.since, lines |-> lines, reset |-> run.reset,
                            from |-> run.from, tokens |-> run.tokens,
                            results |-> run.results, records |-> run.records,
                            wrote |-> run.wrote]
                /\ processing_state' = run.row
                /\ engine' = run.engine
                /\ history' = history \o run.records
                /\ file' = [file EXCEPT !.lines = lines,
                                        !.since = IF run.wrote THEN "grown" ELSE @]

Next ==
    \/ \E l \in LineChoices : AppendLine(l)
    \/ Rotate
    \/ Truncate
    \/ SimulateProcessed
    \/ \E extra \in {<<>>} \cup {<<l>> : l \in LineChoices} : ProcessFile(extra)

Spec == Init /\ [][Next]_vars

(***************************************************************************)
(* Properties of ProcessFile.  `pass` holds the last call: the cursor it   *)
(* found (prev), what os.Stat returned, what happened to the path since    *)
(* the cursor was written (since), the offset the read started from, the   *)
(* tokens read, the outcome of each (blank, ok, err) and the records       *)
(* handed to the Engine.                                                   *)
(***************************************************************************)
PassRan == pass.outcome \in {"nonew", "read"}

\* Every line of the file the pass read, from its first byte.
WholeFile == Scan(pass.lines, 0, 0)

\* The bytes the tokens of the pass cover: len(line)+1 for each.
RECURSIVE TokenBytes(_)
TokenBytes(tokens) ==
    IF tokens = <<>> THEN 0 ELSE Head(tokens).len + 1 + TokenBytes(Tail(tokens))

ReadFromFirstByte ==
    /\ pass.from = 0
    /\ pass.statSize > 0 => pass.outcome = "read" /\ pass.tokens = WholeFile

\* C1: a pass that finds a cursor with a non-zero inode and a file with another
\* inode at the path resets the offset to 0 and reads every line of the new
\* file from its first byte, also when the new file is larger than the stored
\* offset and size.
C1_InodeChangeResets ==
    (PassRan /\ pass.prev.Inode # 0 /\ pass.statInode # pass.prev.Inode)
        => (pass.reset /\ ReadFromFirstByte)

\* C2: a pass over the same file (inode unchanged) whose size is now smaller
\* than the stored last_byte_offset resets the offset to 0 and reads the file
\* from its first byte.
C2_TruncationResets ==
    (PassRan /\ pass.since # "rotated" /\ pass.statSize < pass.prev.LastByteOffset)
        => (pass.reset /\ ReadFromFirstByte)

\* C3: a pass over a file that has only grown since the cursor was stored does
\* not reset: the lines it hands to processLine or skips as blank are exactly
\* the lines of the file that start at or after the stored last_byte_offset.
C3_GrowthReadsOnlyNewLines ==
    (PassRan /\ pass.prev.present /\ pass.since = "grown")
        => /\ ~pass.reset
           /\ pass.from = pass.prev.LastByteOffset
           /\ \A i \in DOMAIN pass.tokens : pass.tokens[i].start >= pass.prev.LastByteOffset
           /\ pass.outcome = "read" =>
                  pass.tokens = SelectSeq(WholeFile,
                                    LAMBDA t : t.start >= pass.prev.LastByteOffset)

C3_Witness ==
    /\ pass.outcome = "read" /\ pass.prev.present /\ pass.since = "grown"
    /\ pass.prev.LastByteOffset > 0
    /\ pass.tokens # <<>>
    /\ Len(pass.tokens) < Len(pass.lines)

SomeLineProcessed == \E i \in DOMAIN pass.results : pass.results[i] # "blank"

C5_InvalidLineIsSkipped ==
    \A i \in DOMAIN pass.tokens :
        pass.tokens[i].line.form = "junk" =>
            /\ Len(pass.results) = Len(pass.tokens)
            /\ pass.results[i] = "err"
            /\ processing_state.LastByteOffset = pass.from + TokenBytes(pass.tokens)
            /\ processing_state.LastByteOffset >= pass.tokens[i].start + pass.tokens[i].len + 1
            /\ \A j \in DOMAIN pass.tokens :
                  (j > i /\ pass.tokens[j].line.form = "wrapped") => pass.results[j] = "ok"
            /\ Len(pass.records) =
                  Cardinality({j \in DOMAIN pass.tokens : pass.tokens[j].line.form = "wrapped"})

C5_Witness ==
    /\ pass.outcome = "read"
    /\ Len(pass.tokens) >= 2
    /\ pass.tokens[1].line.form = "junk"
    /\ pass.tokens[2].line.form = "wrapped"
    /\ pass.results = <<"err", "ok">>
    /\ Len(pass.records) = 1

\* C6: processLine returns no error for a wrapped line and for a direct line and
\* an error for a line that is not valid JSON.
C6_BothLineShapesAccepted ==
    \A i \in DOMAIN pass.tokens :
        /\ pass.tokens[i].line.form \in {"wrapped", "direct"} => pass.results[i] = "ok"
        /\ pass.tokens[i].line.form = "junk" => pass.results[i] = "err"

(***************************************************************************)
(* The extractors on their own: one resource block with one log record or  *)
(* one metric, as processLogData and processMetricData hand them over.     *)
(***************************************************************************)
IdKeys == {"session.id", "user.id", "organization.id", "service.name"}

AttrChoices ==
    {Attr(k, StringValue(v)) : k \in IdKeys, v \in {"A", "B"}}
        \cup {Attr("session.id", IntValueNum(1))}

SeqsUpTo(S, n) == UNION {[1..k -> S] : k \in 0..n}

ResourceChoices ==
    {[hasResource |-> TRUE, resource |-> r] : r \in SeqsUpTo(AttrChoices, MaxResAttrs)}

LogInputs ==
    {[op |-> "log", resourceMap |-> rm,
      item |-> [timeUnixNano |-> Str("1"), severityText |-> "INFO",
                body |-> "claude_code.user_prompt", attributes |-> a]] :
        rm \in ResourceChoices, a \in SeqsUpTo(AttrChoices, MaxAttrs)}

PointChoices ==
    {DataPoint(a, Str("1"), Absent, Num(5)) : a \in SeqsUpTo(AttrChoices, 1)}

MetricInputs ==
    {[op |-> "metric", resourceMap |-> rm,
      item |-> [name |-> "claude_code.cost.usage", hasSum |-> h, dataPoints |-> d]] :
        rm \in ResourceChoices, h \in BOOLEAN, d \in SeqsUpTo(PointChoices, MaxPoints)}

InitExtract ==
    /\ file = [exists |-> FALSE, inode |-> 0, lines |-> <<>>, since |-> "grown"]
    /\ processing_state = NoRow
    /\ engine = NewEngine
    /\ pass = NoPass
    /\ passes = 0
    /\ history = <<>>
    /\ xin \in LogInputs \cup MetricInputs
    /\ xout = [op |-> "none", records |-> <<>>]
    /\ store = NewStore
    /\ logs = <<>>
    /\ traces = <<>>
    /\ now = 0
    /\ locking = Unlocked
    /\ lastFlush = NoFlush
    /\ shutdown = Serving

\* processLogData's innermost step (processor.go:264, 290).
ExtractLog ==
    /\ xin.op = "log"
    /\ xout.op = "none"
    /\ xout' = [op |-> "log",
                records |-> <<extractLogRecord(xin.item,
                                  extractResourceAttributes(xin.resourceMap))>>]
    /\ UNCHANGED <<file, processing_state, engine, pass, passes, history, xin, aux>>

\* processMetricData's innermost step (processor.go:211, 238).
ExtractMetric ==
    /\ xin.op = "metric"
    /\ xout.op = "none"
    /\ xout' = [op |-> "metric",
                records |-> extractMetricRecords(xin.item,
                                extractResourceAttributes(xin.resourceMap))]
    /\ UNCHANGED <<file, processing_state, engine, pass, passes, history, xin, aux>>

NextExtract == ExtractLog \/ ExtractMetric

SpecExtract == InitExtract /\ [][NextExtract]_vars

\* Whether a list of attributes carries key k with a string value, and the
\* value the last such attribute gives it.
Carries(attributes, k) ==
    \E i \in DOMAIN attributes :
        attributes[i].key = k /\ HasString(attributes[i].value, "stringValue")

LastOf(attributes, k) ==
    LET I == {i \in DOMAIN attributes :
                 attributes[i].key = k /\ HasString(attributes[i].value, "stringValue")}
    IN  attributes[CHOOSE i \in I : \A j \in I : j <= i].value.prim.s

\* The identifier precedence: the record's own attributes, else the resource's,
\* else empty.
Precedence(own, resource, k) ==
    IF Carries(own, k) THEN LastOf(own, k)
    ELSE IF Carries(resource, k) THEN LastOf(resource, k)
    ELSE ""

\* C7: extractLogRecord takes session_id, user_id and organization_id from the
\* log record's own attributes when present, else from the resource attributes,
\* else leaves them empty.
C7_LogAttrsTakePrecedence ==
    xout.op = "log" =>
        LET r   == xout.records[1]
            own == xin.item.attributes
            res == xin.resourceMap.resource
        IN  /\ r.SessionID = Precedence(own, res, "session.id")
            /\ r.UserID = Precedence(own, res, "user.id")
            /\ r.OrganizationID = Precedence(own, res, "organization.id")

\* C8: extractMetricRecords emits one record per data point of a sum metric, and
\* in each record session.id, user.id, organization.id and service.name are the
\* data point's value when it carries the key, else the resource's.
C8_DataPointAttrsTakePrecedence ==
    (xout.op = "metric" /\ xin.item.hasSum) =>
        /\ Len(xout.records) = Len(xin.item.dataPoints)
        /\ \A i \in DOMAIN xout.records :
              LET r   == xout.records[i]
                  own == xin.item.dataPoints[i].attributes
                  res == xin.resourceMap.resource
              IN  /\ r.SessionID = Precedence(own, res, "session.id")
                  /\ r.UserID = Precedence(own, res, "user.id")
                  /\ r.OrganizationID = Precedence(own, res, "organization.id")
                  /\ r.ServiceName = Precedence(own, res, "service.name")
                  /\ \A k \in IdKeys : MapGet(r.Attributes, k) = Precedence(own, res, k)

C8_Witness ==
    /\ xout.op = "metric"
    /\ Len(xout.records) = 2
    /\ Carries(xin.resourceMap.resource, "session.id")
    /\ Carries(xin.item.dataPoints[1].attributes, "session.id")
    /\ ~Carries(xin.item.dataPoints[2].attributes, "session.id")
    /\ xout.records[1].SessionID # xout.records[2].SessionID
    /\ xout.records[2].SessionID = LastOf(xin.resourceMap.resource, "session.id")

(***************************************************************************)
(* The Engine on its own: metric records folded one after the other.       *)
(***************************************************************************)
Float64(n) == [t |-> "float64", n |-> n]
Int64(n) == [t |-> "int64", n |-> n]

MetricRecord(sessionID, name, value, attributes) ==
    [Timestamp |-> 1, SessionID |-> sessionID, UserID |-> "u1",
     OrganizationID |-> "o1", ServiceName |-> "claude-code", MetricName |-> name,
     MetricValue |-> value, Attributes |-> attributes]

CostRecord(sessionID, value, model) ==
    MetricRecord(sessionID, "claude_code.cost.usage", value,
                 IF model = "" THEN EmptyMap ELSE MapPut(EmptyMap, "model", model))

TokenRecord(value, type, model) ==
    MetricRecord("s1", "claude_code.token.usage", value,
                 LET a == IF type = "" THEN EmptyMap ELSE MapPut(EmptyMap, "type", type)
                 IN  IF model = "" THEN a ELSE MapPut(a, "model", model))

RecordChoices ==
    {CostRecord("s1", Float64(5), "m1"), CostRecord("s1", Float64(3), "m1"),
     CostRecord("s1", Float64(5), "m2"), CostRecord("s1", Float64(0 - 2), "m1"),
     CostRecord("s1", Float64(0), "m1"), CostRecord("s1", Int64(1), "m1"),
     CostRecord("s1", NilValue, "m1"), CostRecord("s1", Float64(3), ""),
     CostRecord("s2", Float64(5), "m1"), CostRecord("", Float64(5), "m1")}
    \cup {TokenRecord(Int64(2), t, "m1") :
             t \in {"input", "output", "cacheRead", "cacheCreation", "other", ""}}
    \cup {TokenRecord(Float64(6), "input", "m1"), TokenRecord(Int64(0 - 1), "input", "m1"),
          TokenRecord(Int64(2), "input", "")}

FoldMetric(record) ==
    /\ Len(history) < MaxHistory
    /\ engine' = ProcessMetric(engine, record)
    /\ history' = Append(history, record)
    /\ UNCHANGED <<file, processing_state, pass, passes, xin, xout, aux>>

NextEngine == \E record \in RecordChoices : FoldMetric(record)

SpecEngine == Init /\ [][NextEngine]_vars

\* What the records folded so far say, computed from the history alone.
Models == {"m1", "m2"}
Sessions == {"s1", "s2"}

CostAmount(r) ==
    IF r.MetricValue.t = "float64" THEN r.MetricValue.n
    ELSE IF r.MetricValue.t = "int64" THEN 4 * r.MetricValue.n ELSE 0

TokenAmount(r) ==
    IF r.MetricValue.t = "int64" THEN r.MetricValue.n
    ELSE IF r.MetricValue.t = "float64" THEN ToInt64(r.MetricValue.n) ELSE 0

RECURSIVE SumOver(_, _)
SumOver(F(_), records) ==
    IF records = <<>> THEN 0 ELSE F(Head(records)) + SumOver(F, Tail(records))

CostRecords(s) ==
    SelectSeq(history, LAMBDA r : r.SessionID = s /\ r.MetricName = "claude_code.cost.usage")

TokenRecords(s, type) ==
    SelectSeq(history, LAMBDA r : /\ r.SessionID = s
                                  /\ r.MetricName = "claude_code.token.usage"
                                  /\ MapGet(r.Attributes, "type") = type)

OfModel(records, m) == SelectSeq(records, LAMBDA r : MapGet(r.Attributes, "model") = m)

HasModelRow(s, m) ==
    s \in DOMAIN engine.sessionModelsCache /\ m \in DOMAIN engine.sessionModelsCache[s]

\* C9: after any sequence of cost.usage records, a session's total_cost_usd is
\* the sum of all their values, and for each model M the per-model cost_usd is
\* the sum of the positive values carrying model M and request_count their
\* number.
C9_CostTotals ==
    \A s \in Sessions :
        /\ CostRecords(s) # <<>> =>
              /\ s \in DOMAIN engine.sessionsCache
              /\ engine.sessionsCache[s].TotalCostUSD = SumOver(CostAmount, CostRecords(s))
        /\ \A m \in Models :
              LET pos == SelectSeq(OfModel(CostRecords(s), m), LAMBDA r : CostAmount(r) > 0)
              IN  /\ pos # <<>> => HasModelRow(s, m)
                  /\ HasModelRow(s, m) =>
                        /\ engine.sessionModelsCache[s][m].CostUSD = SumOver(CostAmount, pos)
                        /\ engine.sessionModelsCache[s][m].RequestCount = Len(pos)

\* The scenario of the specification: 1.25 USD then 0.75 USD on model M.
C9_Witness ==
    /\ history = <<CostRecord("s1", Float64(5), "m1"), CostRecord("s1", Float64(3), "m1")>>
    /\ engine.sessionsCache["s1"].TotalCostUSD = 8
    /\ engine.sessionModelsCache["s1"]["m1"].CostUSD = 8
    /\ engine.sessionModelsCache["s1"]["m1"].RequestCount = 2

\* C10: each of the four session token totals is the sum of the values of the
\* token.usage records whose type selects it, so a record adds to exactly one
\* total and a record of any other type to none; the same bucket of the
\* per-model row sums the positive values of the records that carry the model.
C10_TokenTotals ==
    \A s \in Sessions :
        /\ s \in DOMAIN engine.sessionsCache =>
              LET row == engine.sessionsCache[s]
              IN  /\ row.TotalInputTokens = SumOver(TokenAmount, TokenRecords(s, "input"))
                  /\ row.TotalOutputTokens = SumOver(TokenAmount, TokenRecords(s, "output"))
                  /\ row.TotalCacheReadTokens =
                        SumOver(TokenAmount, TokenRecords(s, "cacheRead"))
                  /\ row.TotalCacheCreationTokens =
                        SumOver(TokenAmount, TokenRecords(s, "cacheCreation"))
        /\ \A m \in Models :
              LET Pos(type) == SelectSeq(OfModel(TokenRecords(s, type), m),
                                         LAMBDA r : TokenAmount(r) > 0)
              IN  /\ (\E t \in {"input", "output", "cacheRead", "cacheCreation"} :
                         Pos(t) # <<>>) => HasModelRow(s, m)
                  /\ HasModelRow(s, m) =>
                        LET row == engine.sessionModelsCache[s][m]
                        IN  /\ row.InputTokens = SumOver(TokenAmount, Pos("input"))
                            /\ row.OutputTokens = SumOver(TokenAmount, Pos("output"))
                            /\ row.CacheReadTokens = SumOver(TokenAmount, Pos("cacheRead"))
                            /\ row.CacheCreationTokens =
                                  SumOver(TokenAmount, Pos("cacheCreation"))

C10_Witness ==
    /\ history = <<TokenRecord(Int64(2), "cacheRead", "m1"),
                   TokenRecord(Int64(2), "other", "m1"),
                   TokenRecord(Float64(6), "input", "m1")>>
    /\ engine.sessionsCache["s1"].TotalCacheReadTokens = 2
    /\ engine.sessionsCache["s1"].TotalInputTokens = 1
    /\ engine.sessionsCache["s1"].TotalOutputTokens = 0
    /\ engine.sessionsCache["s1"].TotalCacheCreationTokens = 0
    /\ engine.sessionModelsCache["s1"]["m1"].CacheReadTokens = 2
    /\ engine.sessionModelsCache["s1"]["m1"].InputTokens = 1

(***************************************************************************)
(* The Engine folding log records.                                         *)
(***************************************************************************)
AttrMap(attributes) == LogAttrs(attributes, [k \in {} |-> StringValue("")])

LogRecord(sessionID, timestamp, body, attributes) ==
    [Timestamp |-> timestamp, SessionID |-> sessionID, UserID |-> "u1",
     OrganizationID |-> "o1", ServiceName |-> "claude-code", SeverityText |-> "INFO",
     Body |-> body, Attributes |-> AttrMap(attributes)]

\* A tool_result event; a duration of 0 - 1 stands for no duration_ms attribute
\* and an empty tool for no tool_name attribute.
ToolResult(timestamp, tool, success, duration) ==
    LogRecord("s1", timestamp, "claude_code.tool_result",
              <<Attr("success", BoolValue(success))>>
              \o (IF tool = "" THEN <<>> ELSE <<Attr("tool_name", StringValue(tool))>>)
              \o (IF duration < 0 THEN <<>>
                  ELSE <<Attr("duration_ms", DoubleValue(duration))>>))

\* Durations 45.25, 120.75 and 12.25 ms in quarters of a millisecond.
ToolLogChoices ==
    {ToolResult(1, "Read", TRUE, 181), ToolResult(1, "Read", TRUE, 483),
     ToolResult(1, "Read", FALSE, 49), ToolResult(1, "Read", TRUE, 0 - 1),
     ToolResult(1, "Read", FALSE, 0), ToolResult(1, "", TRUE, 181),
     ToolResult(1, "Bash", TRUE, 181),
     LogRecord("s1", 1, "claude_code.tool_result",
               <<Attr("success", StringValue("true")), Attr("tool_name", StringValue("Read")),
                 Attr("duration_ms", StringValue("3"))>>),
     LogRecord("s1", 1, "claude_code.tool_decision",
               <<Attr("tool_name", StringValue("Read"))>>),
     LogRecord("s1", 1, "claude_code.tool_result after claude_code.api_error",
               <<Attr("tool_name", StringValue("Read"))>>)}

\* Engine.ProcessLog with the prompt it inserts through the store.
FoldLog(record) ==
    /\ Len(logs) < MaxLogs
    /\ engine' = ProcessLog(engine, record)
    /\ store' = [store EXCEPT !.session_prompts =
                    UpsertEach(InsertSessionPrompt, @, PromptsOf(record))]
    /\ logs' = Append(logs, record)
    /\ UNCHANGED <<file, processing_state, pass, passes, history, xin, xout, traces, now,
                   lastFlush, shutdown, locking>>

NextTools == \E record \in ToolLogChoices : FoldLog(record)

SpecTools == Init /\ [][NextTools]_vars

Tools == {"Read", "Bash"}

\* The records of the tool_result branch for tool T in session s, in the order
\* they were folded.
IsToolResult(r) ==
    /\ containsString(r.Body, "claude_code.tool_result")
    /\ \A m \in Markers \ {"claude_code.tool_result"} : ~containsString(r.Body, m)

ToolResults(s, T) ==
    SelectSeq(logs, LAMBDA r : /\ r.SessionID = s
                               /\ IsToolResult(r)
                               /\ extractString(r.Attributes, "tool_name") = T)

Duration(r) == extractFloat(r.Attributes, "duration_ms")
Succeeded(r) == extractBool(r.Attributes, "success")
Durations(records) == {Duration(records[i]) : i \in DOMAIN records}

HasToolStats(s, T) ==
    s \in DOMAIN engine.toolStatsCache /\ T \in DOMAIN engine.toolStatsCache[s]

\* C11: after any sequence of tool_result records for tool T in one session,
\* all with positive durations, T's row counts the records, the successes and
\* the failures, holds the smallest and the largest duration as min and max,
\* and the sum of the durations divided by the count as avg.
C11_ToolStatistics ==
    \A s \in Sessions : \A T \in Tools :
        LET records == ToolResults(s, T)
        IN  (records # <<>> /\ \A d \in Durations(records) : d > 0) =>
              /\ HasToolStats(s, T)
              /\ LET row == engine.toolStatsCache[s][T]
                 IN  /\ row.ExecutionCount = Len(records)
                     /\ row.SuccessCount = Len(SelectSeq(records, Succeeded))
                     /\ row.FailureCount = Len(SelectSeq(records, LAMBDA r : ~Succeeded(r)))
                     /\ row.MinDurationMS \in Durations(records)
                     /\ \A d \in Durations(records) :
                           row.MinDurationMS <= d /\ d <= row.MaxDurationMS
                     /\ row.MaxDurationMS \in Durations(records)
                     /\ row.AvgDurationMS.num * Len(records) =
                           SumOver(Duration, records) * row.AvgDurationMS.den
                     /\ row.AvgDurationMS.den > 0

\* The scenario of the specification: three calls of Read, two succeeding.
C11_Witness ==
    /\ logs = <<ToolResult(1, "Read", TRUE, 181), ToolResult(1, "Read", TRUE, 483),
                ToolResult(1, "Read", FALSE, 49)>>
    /\ engine.toolStatsCache["s1"]["Read"].ExecutionCount = 3
    /\ engine.toolStatsCache["s1"]["Read"].SuccessCount = 2
    /\ engine.toolStatsCache["s1"]["Read"].FailureCount = 1
    /\ engine.toolStatsCache["s1"]["Read"].MinDurationMS = 49
    /\ engine.toolStatsCache["s1"]["Read"].MaxDurationMS = 483
    /\ engine.toolStatsCache["s1"]["Read"].AvgDurationMS = Quotient(713, 3)

\* C12: every per-session tool row with a positive call count has
\* min_duration_ms <= avg_duration_ms <= max_duration_ms, whatever tool_result
\* records were folded, those without a duration or with a zero one included.
C12_MinAvgMax ==
    \A s \in DOMAIN engine.toolStatsCache : \A T \in DOMAIN engine.toolStatsCache[s] :
        LET row == engine.toolStatsCache[s][T]
        IN  row.ExecutionCount > 0 =>
              /\ row.MinDurationMS * row.AvgDurationMS.den <= row.AvgDurationMS.num
              /\ row.AvgDurationMS.num <= row.MaxDurationMS * row.AvgDurationMS.den

RECURSIVE SumCallCount(_)
SumCallCount(rows) ==
    IF rows = {} THEN 0
    ELSE LET row == CHOOSE x \in rows : TRUE
         IN  row.CallCount + SumCallCount(rows \ {row})

\* C13: for every cached session, tool_call_count equals the sum of call_count
\* over the session's SessionTool rows, also after tool_result records that
\* carry no tool_name.
C13_ToolCallCountIsSum ==
    \A s \in DOMAIN engine.sessionsCache :
        engine.sessionsCache[s].ToolCallCount =
            SumCallCount(IF s \in DOMAIN engine.sessionToolsCache
                         THEN Range(engine.sessionToolsCache[s]) ELSE {})

(***************************************************************************)
(* The Engine between its caches and the store: metric, log and trace      *)
(* records folded in any order, FlushCache, and a restart of the process   *)
(* on the same database.                                                   *)
(***************************************************************************)
MaxFolds == 3

TraceRecord(sessionID, timestamp) ==
    [Timestamp |-> timestamp, SessionID |-> sessionID, UserID |-> "u1",
     OrganizationID |-> "o1", ServiceName |-> "claude-code"]

\* Metric records carry timestamp 1, log records 2 and trace records 3, so
\* that the folds of a run come in and out of timestamp order.
CacheMetricChoices ==
    {CostRecord("s1", Float64(5), "m1"),
     MetricRecord("s1", "claude_code.session.count", Int64(1), EmptyMap),
     CostRecord("", Float64(5), "m1")}

CacheLogChoices ==
    {LogRecord("s1", 2, "claude_code.api_request",
               <<Attr("model", StringValue("m1")), Attr("duration_ms", DoubleValue(8))>>),
     LogRecord("s1", 2, "claude_code.user_prompt", <<Attr("prompt", StringValue("hi"))>>),
     LogRecord("", 2, "claude_code.user_prompt", <<Attr("prompt", StringValue("hi"))>>),
     [ToolResult(2, "Read", TRUE, 181) EXCEPT !.Timestamp = 2]}

TraceChoices == {TraceRecord("s1", 3), TraceRecord("", 3)}

Folds == Len(history) + Len(logs) + Len(traces)

\* Engine.ProcessTrace.
FoldTrace(record) ==
    /\ engine' = ProcessTrace(engine, record)
    /\ traces' = Append(traces, record)
    /\ UNCHANGED <<file, processing_state, pass, passes, history, xin, xout, store, logs, now,
                   lastFlush, shutdown, locking>>

\* session.UpdatedAt = time.Now() and stats.UpdatedAt = time.Now() on every
\* entry of the two session caches (engine.go:63, 96).
Stamped(cache) == [s \in DOMAIN cache |-> [cache[s] EXCEPT !.UpdatedAt = now]]

FlushedEngine == [engine EXCEPT !.sessionsCache = Stamped(@), !.sessionCache = Stamped(@)]

\* The tables after the six loops of FlushCache.  The statements of the
\* tables named in failing return an error, which is logged; the others are
\* applied.
FlushedStore(failing) ==
    LET e == FlushedEngine
        Flush(name, table, rows) == IF name \in failing THEN table ELSE rows
    IN  [store EXCEPT
            !.sessions = Flush("sessions", @,
                UpsertEach(UpsertSession, @, Range(e.sessionsCache))),
            !.session_models = Flush("session_models", @,
                UpsertEach(UpsertSessionModel, @, Entries(e.sessionModelsCache))),
            !.session_tools = Flush("session_tools", @,
                UpsertEach(UpsertSessionTool, @, Entries(e.sessionToolsCache))),
            !.session_stats = Flush("session_stats", @,
                UpsertEach(UpsertSessionStats, @, Range(e.sessionCache))),
            !.session_model_stats = Flush("session_model_stats", @,
                UpsertEach(UpsertSessionModelStats, @, Entries(e.modelStatsCache))),
            !.session_tool_stats = Flush("session_tool_stats", @,
                UpsertEach(UpsertSessionToolStats, @, Entries(e.toolStatsCache)))]

\* Engine.FlushCache (engine.go:56-119).  No entry leaves the caches.
FlushCache(failing) ==
    /\ engine # NewEngine
    /\ engine' = FlushedEngine
    /\ store' = FlushedStore(failing)
    /\ lastFlush' = [done |-> TRUE, failing |-> failing, folds |-> Folds,
                     again |-> lastFlush.done /\ lastFlush.folds = Folds]
    /\ UNCHANGED <<file, processing_state, pass, passes, history, xin, xout, logs, traces,
                   now, shutdown, locking>>

\* The process ends and starts again on the same database: NewStore opens the
\* tables as they are and NewEngine starts with empty caches.
Restart ==
    /\ engine # NewEngine
    /\ engine' = NewEngine
    /\ lastFlush' = NoFlush
    /\ UNCHANGED <<file, processing_state, pass, passes, history, xin, xout, store, logs,
                   traces, now, shutdown, locking>>

NextCache ==
    \/ \E record \in CacheMetricChoices : Folds < MaxFolds /\ FoldMetric(record)
    \/ \E record \in CacheLogChoices : Folds < MaxFolds /\ FoldLog(record)
    \/ \E record \in TraceChoices : Folds < MaxFolds /\ FoldTrace(record)
    \/ \E failing \in {{}, {"sessions"}} : FlushCache(failing)
    \/ Restart

SpecCache == Init /\ [][NextCache]_vars

\* Two quotients are the same number.
SameQuotient(q, a, n) == q.num * n = a * q.den

\* C14: for every per-session model row with request_count > 0, the average
\* latency is total_latency_ms / request_count after every fold that changes
\* either of them, a cost.usage record or an api_request record with a
\* positive duration.
C14_AvgLatency ==
    \A row \in Entries(engine.modelStatsCache) :
        row.RequestCount > 0 =>
            SameQuotient(row.AvgLatencyMS, row.TotalLatencyMS, row.RequestCount)

\* The five totals of a session row, cost first.
SessionTotals(row) ==
    <<row.TotalCostUSD, row.TotalInputTokens, row.TotalOutputTokens,
      row.TotalCacheReadTokens, row.TotalCacheCreationTokens>>

NeverBelow(after, before) ==
    \A i \in 1..5 : SessionTotals(after)[i] >= SessionTotals(before)[i]

\* C15: whatever the value of the metric record folded, every cached
\* session's total cost and four token totals are non-negative and not below
\* what they were before the fold.
C15_TotalsMonotone ==
    [][\A s \in DOMAIN engine'.sessionsCache :
          /\ \A i \in 1..5 : SessionTotals(engine'.sessionsCache[s])[i] >= 0
          /\ s \in DOMAIN engine.sessionsCache =>
                NeverBelow(engine'.sessionsCache[s], engine.sessionsCache[s])]_vars

\* C16: the totals of a session's row in the store never decrease from one
\* flush to the next, a restart of the process between the two included.
C16_StoredTotalsMonotone ==
    [][\A s \in DOMAIN store.sessions :
          /\ s \in DOMAIN store'.sessions
          /\ NeverBelow(store'.sessions[s], store.sessions[s])]_vars

\* The record a step folds, if it folds one.
Folded ==
    IF history' # history THEN {history'[Len(history')]}
    ELSE IF logs' # logs THEN {logs'[Len(logs')]}
    ELSE IF traces' # traces THEN {traces'[Len(traces')]}
    ELSE {}

Max(a, b) == IF a >= b THEN a ELSE b
Min(a, b) == IF a <= b THEN a ELSE b

\* C17: after folding a record with timestamp t, the end_time of its cached
\* session is the later of the previous end_time and t.
C17_EndTimeIsMax ==
    [][\A record \in Folded :
          LET s == record.SessionID
          IN  (s \in DOMAIN engine.sessionsCache /\ s \in DOMAIN engine'.sessionsCache) =>
                  engine'.sessionsCache[s].EndTime =
                      Max(engine.sessionsCache[s].EndTime, record.Timestamp)]_vars

\* C18: the start_time of a cached session is the smallest timestamp of the
\* records folded for it, in whatever order they come: a record older than
\* the start_time, a session.count metric among them, lowers it.
C18_StartTimeIsMin ==
    [][\A record \in Folded :
          LET s == record.SessionID
          IN  s \in DOMAIN engine'.sessionsCache =>
                  engine'.sessionsCache[s].StartTime =
                      IF s \in DOMAIN engine.sessionsCache
                      THEN Min(engine.sessionsCache[s].StartTime, record.Timestamp)
                      ELSE record.Timestamp]_vars

\* C19: folding a metric, log or trace record whose session id is empty
\* leaves every cache map and every table of the store as it was.
C19_EmptySessionDropped ==
    [][(\E record \in Folded : record.SessionID = "") =>
          engine' = engine /\ store' = store]_vars

\* ProcessMetric and ProcessLog were each given a record without a session
\* id after a cost record had been folded and flushed: the caches and the
\* store still hold that one session and nothing else.
C19_Witness ==
    /\ Len(history) = 2 /\ history[2].SessionID = ""
    /\ Len(logs) = 1 /\ logs[1].SessionID = ""
    /\ DOMAIN engine.sessionsCache = {"s1"}
    /\ engine.sessionsCache["s1"].TotalCostUSD = 5
    /\ DOMAIN engine.sessionCache = {"s1"}
    /\ DOMAIN store.sessions = {"s1"}
    /\ store.session_prompts = {}

\* The store holds every cached session with the cached totals and counts.
SessionsPersisted ==
    \A s \in DOMAIN engine.sessionsCache :
        /\ s \in DOMAIN store.sessions
        /\ LET cached == engine.sessionsCache[s]
               row    == store.sessions[s]
           IN  /\ SessionTotals(row) = SessionTotals(cached)
               /\ row.APIRequestCount = cached.APIRequestCount
               /\ row.APIErrorCount = cached.APIErrorCount
               /\ row.UserPromptCount = cached.UserPromptCount
               /\ row.ToolCallCount = cached.ToolCallCount
               /\ row.TotalAPILatencyMS = cached.TotalAPILatencyMS

SessionModelsPersisted ==
    \A model \in Entries(engine.sessionModelsCache) :
        /\ <<model.SessionID, model.Model>> \in DOMAIN store.session_models
        /\ store.session_models[<<model.SessionID, model.Model>>] = model

SessionToolsPersisted ==
    \A tool \in Entries(engine.sessionToolsCache) :
        /\ <<tool.SessionID, tool.ToolName>> \in DOMAIN store.session_tools
        /\ store.session_tools[<<tool.SessionID, tool.ToolName>>] = tool

\* The store holds every cached session, session-model and session-tool
\* entry with the cached totals and counts.
Persisted == SessionsPersisted /\ SessionModelsPersisted /\ SessionToolsPersisted

\* C20: after a FlushCache in which every upsert succeeds, each cached
\* session, session-model and session-tool entry has a row in the store whose
\* totals and counts are the cached ones.
C20_FlushPersistsCache ==
    [][FlushCache({}) => Persisted']_vars

\* The caches without the flush stamp.
Unstamped(e) ==
    [e EXCEPT !.sessionsCache = [s \in DOMAIN @ |-> [@[s] EXCEPT !.UpdatedAt = ZeroTime]],
              !.sessionCache = [s \in DOMAIN @ |-> [@[s] EXCEPT !.UpdatedAt = ZeroTime]]]

TablePersisted(name) ==
    IF name = "sessions" THEN SessionsPersisted
    ELSE IF name = "session_models" THEN SessionModelsPersisted
    ELSE IF name = "session_tools" THEN SessionToolsPersisted
    ELSE TRUE

\* C21: a FlushCache in which the upserts of a table fail keeps every cache
\* entry and still flushes the entries of the other tables, and the next
\* FlushCache in which every upsert succeeds makes the rows of the table that
\* failed equal to the entries as they are cached then.
C21_FailedUpsertRetried ==
    [][/\ FlushCache({"sessions"}) =>
             /\ Unstamped(engine') = Unstamped(engine)
             /\ SessionModelsPersisted' /\ SessionToolsPersisted'
       /\ (lastFlush.done /\ lastFlush.failing # {} /\ FlushCache({})) =>
             \A name \in lastFlush.failing : TablePersisted(name)']_vars

(***************************************************************************)
(* FlushCache over time: the periodic flush of a cache that may or may    *)
(* not have changed, while the wall clock advances.                        *)
(***************************************************************************)
\* A second of wall-clock time passes.
Tick ==
    /\ now < MaxNow
    /\ now' = now + 1
    /\ UNCHANGED <<file, processing_state, engine, pass, passes, history, xin, xout, store,
                   logs, traces, lastFlush, shutdown, locking>>

FlushLogChoices ==
    {LogRecord("s1", 2, "claude_code.api_request",
               <<Attr("model", StringValue("m1")), Attr("duration_ms", DoubleValue(8))>>),
     [ToolResult(2, "Read", TRUE, 181) EXCEPT !.Timestamp = 2]}

NextFlush ==
    \/ Folds < MaxFolds /\ FoldMetric(CostRecord("s1", Float64(5), "m1"))
    \/ \E record \in FlushLogChoices : Folds < MaxFolds /\ FoldLog(record)
    \/ \E failing \in {{}, {"sessions"}} : FlushCache(failing)
    \/ Tick

SpecFlush == Init /\ [][NextFlush]_vars

\* A FlushCache call that follows a successful one with no fold in between.
FlushAgain ==
    /\ lastFlush.done /\ lastFlush.failing = {} /\ lastFlush.folds = Folds
    /\ FlushCache({})

\* A sessions row without its updated_at column.
Undated(table) == [k \in DOMAIN table |-> [table[k] EXCEPT !.UpdatedAt = ZeroTime]]

UserPrompt(sessionID, timestamp, attributes) ==
    LogRecord(sessionID, timestamp, "claude_code.user_prompt", attributes)

\* Two instants in different seconds.
PromptTimes == {2, Second + 2}

PromptLogChoices ==
    {UserPrompt("s1", 2, <<Attr("prompt", StringValue("hi"))>>),
     UserPrompt("s1", 2, <<Attr("prompt", StringValue("more")),
                           Attr("prompt_length", IntValueStr("4"))>>),
     UserPrompt("s1", 2, <<>>),
     UserPrompt("s1", 2, <<Attr("prompt", StringValue("<REDACTED>"))>>),
     UserPrompt("s1", Second + 2, <<Attr("prompt", StringValue("hi"))>>),
     UserPrompt("s2", 2, <<Attr("prompt", StringValue("hi"))>>)}

NextPrompts == \E record \in PromptLogChoices : FoldLog(record)

SpecPrompts == Init /\ [][NextPrompts]_vars

IsUserPrompt(r) == r.Body = "claude_code.user_prompt"

\* The prompt a record carries in the clear, if any.
ClearPrompt(r) ==
    IF "prompt" \notin DOMAIN r.Attributes THEN ""
    ELSE LET v == r.Attributes["prompt"]
         IN  IF HasString(v, "stringValue") /\ v.prim.s # "<REDACTED>" THEN v.prim.s ELSE ""

PromptRows(s, t) ==
    {p \in store.session_prompts : p.SessionID = s /\ p.Timestamp = Unix(t)}

\* C23: however many user_prompt records of a session carry a prompt in the
\* clear at one timestamp, session_prompts holds exactly one row for that
\* session and timestamp, and none when no record does; a record whose prompt
\* is absent or <REDACTED> adds no row and still counts in user_prompt_count.
C23_OnePromptRow ==
    \A s \in Sessions :
        LET prompts == SelectSeq(logs, LAMBDA r : r.SessionID = s /\ IsUserPrompt(r))
        IN  /\ \A t \in PromptTimes :
                  Cardinality(PromptRows(s, t)) =
                      IF \E i \in 1..Len(prompts) :
                            prompts[i].Timestamp = t /\ ClearPrompt(prompts[i]) # ""
                      THEN 1 ELSE 0
            /\ prompts # <<>> =>
                  /\ s \in DOMAIN engine.sessionsCache
                  /\ engine.sessionsCache[s].UserPromptCount = Len(prompts)

\* Two prompts in the clear and a redacted one, all of session s1 at the same
\* timestamp: one row, three prompts counted.
C23_Witness ==
    /\ Len(logs) = 3
    /\ \A i \in 1..3 : logs[i].SessionID = "s1" /\ logs[i].Timestamp = 2
    /\ {ClearPrompt(logs[i]) : i \in 1..3} = {"hi", "more", ""}
    /\ Cardinality(store.session_prompts) = 1
    /\ engine.sessionsCache["s1"].UserPromptCount = 3

(***************************************************************************)
(* cmd main: the shutdown sequence, next to the two goroutines it leaves   *)
(* running.  shutdown.main is where main stands:                           *)
(*   serving   waiting for the signal                                      *)
(*   stopping  aggProcessor.Stop() has closed stopChan                     *)
(*   flushed   the final aggEngine.FlushCache() has returned               *)
(*   closed    aggStore.Close() has returned                               *)
(*   exited    main has returned and the process is gone                   *)
(* shutdown.processor is the goroutine of Processor.Start: waiting in its  *)
(* select, in a pass over the role file (shutdown.scan holds the locals    *)
(* of ProcessFile), or returned.  shutdown.late collects the statements    *)
(* issued on the database after Close.                                     *)
(***************************************************************************)
Tables ==
    {"sessions", "session_models", "session_tools", "session_stats",
     "session_model_stats", "session_tool_stats"}

Closed == shutdown.main \in {"closed", "exited"}

\* The collector appends a line; it is shut down before the aggregator.
Ingest(l) == shutdown.main = "serving" /\ AppendLine(l)

\* case <-ticker.C: processAllFiles enters ProcessFile, which stats the file,
\* reads the cursor and seeks (processor.go:76-119).  With no new data it
\* returns at once; on a closed database the cursor read fails and it returns.
PassBegins ==
    /\ shutdown.processor = "waiting"
    /\ ~Closed
    /\ file.exists
    /\ LET fileInfo == [Size |-> ByteSize(file.lines), Inode |-> file.inode]
           st0      == GetProcessingState(processing_state)
           st       == IF Rotated(fileInfo, st0)
                       THEN [st0 EXCEPT !.LastByteOffset = 0, !.FileSizeBytes = 0] ELSE st0
       IN  /\ fileInfo.Size > st.FileSizeBytes
           /\ shutdown' = [shutdown EXCEPT
                  !.processor = "in pass",
                  !.scan = [tokens |-> Scan(file.lines, 0, st.LastByteOffset),
                            currentOffset |-> st.LastByteOffset,
                            newLinesProcessed |-> 0, size |-> fileInfo.Size]]
    /\ UNCHANGED <<file, processing_state, engine, pass, passes, history, xin, xout, store,
                   logs, traces, now, lastFlush, locking>>

\* One iteration of the scan loop of the pass in flight.  A checkpoint on a
\* closed database fails and is logged.
PassLine ==
    /\ shutdown.processor = "in pass"
    /\ shutdown.main # "exited"
    /\ shutdown.scan.tokens # <<>>
    /\ \E next \in {ScanStep([currentOffset |-> shutdown.scan.currentOffset,
                               newLinesProcessed |-> shutdown.scan.newLinesProcessed,
                               engine |-> engine, row |-> processing_state,
                               results |-> <<>>, records |-> <<>>],
                              Head(shutdown.scan.tokens), shutdown.scan.size)} :
          /\ engine' = next.engine
          /\ history' = history \o next.records
          /\ processing_state' = IF Closed THEN processing_state ELSE next.row
          /\ shutdown' = [shutdown EXCEPT
                 !.scan.tokens = Tail(@),
                 !.scan.currentOffset = next.currentOffset,
                 !.scan.newLinesProcessed = next.newLinesProcessed,
                 !.late = IF Closed /\ next.row # processing_state
                          THEN @ \cup {"cursor write"} ELSE @]
    /\ UNCHANGED <<file, pass, passes, xin, xout, store, logs, traces, now, lastFlush, locking>>

\* The scanner is at the end of the file: the final state update
\* (processor.go:153-158), and the goroutine is back in its select.
PassEnds ==
    /\ shutdown.processor = "in pass"
    /\ shutdown.main # "exited"
    /\ shutdown.scan.tokens = <<>>
    /\ LET writes == shutdown.scan.newLinesProcessed > 0
       IN  /\ processing_state' =
                  IF writes /\ ~Closed
                  THEN WriteCursor(processing_state, shutdown.scan.currentOffset,
                                   shutdown.scan.size)
                  ELSE processing_state
           /\ shutdown' = [shutdown EXCEPT
                  !.processor = "waiting", !.scan = NoScan,
                  !.late = IF writes /\ Closed THEN @ \cup {"cursor write"} ELSE @]
    /\ UNCHANGED <<file, engine, pass, passes, history, xin, xout, store, logs, traces, now,
                   lastFlush, locking>>

\* case <-p.stopChan: the goroutine stops its ticker and returns
\* (processor.go:44-47).
ProcessorReturns ==
    /\ shutdown.processor = "waiting"
    /\ shutdown.main \in {"stopping", "flushed", "closed"}
    /\ shutdown' = [shutdown EXCEPT !.processor = "returned"]
    /\ UNCHANGED <<file, processing_state, engine, pass, passes, history, xin, xout, store,
                   logs, traces, now, lastFlush, locking>>

\* A tick of periodicFlush (engine.go:47-53) while the database is open.
PeriodicFlush == ~Closed /\ FlushCache({})

\* A tick of periodicFlush after Close: every upsert returns an error.
FlushAfterClose ==
    /\ shutdown.main = "closed"
    /\ engine # NewEngine
    /\ engine' = FlushedEngine
    /\ lastFlush' = [done |-> TRUE, failing |-> Tables, folds |-> Folds, again |-> FALSE]
    /\ shutdown' = [shutdown EXCEPT !.late = @ \cup {"upsert"}]
    /\ UNCHANGED <<file, processing_state, pass, passes, history, xin, xout, store, logs,
                   traces, now, locking>>

\* <-sigChan, then aggProcessor.Stop(): close(p.stopChan), which waits for
\* nothing (part_000:66, 81-83; processor.go:56-58).
StopProcessor ==
    /\ shutdown.main = "serving"
    /\ shutdown' = [shutdown EXCEPT !.main = "stopping"]
    /\ UNCHANGED <<file, processing_state, engine, pass, passes, history, xin, xout, store,
                   logs, traces, now, lastFlush, locking>>

\* aggEngine.FlushCache() of main (part_000:85-87).
FinalFlush ==
    /\ shutdown.main = "stopping"
    /\ engine' = FlushedEngine
    /\ store' = FlushedStore({})
    /\ lastFlush' = [done |-> TRUE, failing |-> {}, folds |-> Folds, again |-> FALSE]
    /\ shutdown' = [shutdown EXCEPT !.main = "flushed"]
    /\ UNCHANGED <<file, processing_state, pass, passes, history, xin, xout, logs, traces,
                   now, locking>>

\* aggStore.Close() (part_000:95-99).
CloseStore ==
    /\ shutdown.main = "flushed"
    /\ shutdown' = [shutdown EXCEPT !.main = "closed"]
    /\ UNCHANGED <<file, processing_state, engine, pass, passes, history, xin, xout, store,
                   logs, traces, now, lastFlush, locking>>

\* main returns; the goroutines end with the process.
Exit ==
    /\ shutdown.main = "closed"
    /\ shutdown' = [shutdown EXCEPT !.main = "exited"]
    /\ UNCHANGED <<file, processing_state, engine, pass, passes, history, xin, xout, store,
                   logs, traces, now, lastFlush, locking>>

NextShutdown ==
    \/ \E l \in {Line("wrapped", EnvCost), Line("junk", NoEnvelope)} : Ingest(l)
    \/ PassBegins
    \/ PassLine
    \/ PassEnds
    \/ ProcessorReturns
    \/ PeriodicFlush
    \/ FlushAfterClose
    \/ StopProcessor
    \/ FinalFlush
    \/ CloseStore
    \/ Exit

SpecShutdown == Init /\ [][NextShutdown]_vars

\* C24: once the shutdown sequence has completed, the store holds for every
\* cached session the counters the cache ends with: nothing is folded into
\* the cache after the final flush, not even by a pass in flight.
C24_StoreHoldsFinalCache ==
    Closed => SessionsPersisted

\* C30: the processor and the flush timer are stopped before the store is
\* closed, so that no upsert, cursor write or prompt insert is issued on the
\* database after Close.
C30_NoStatementAfterClose ==
    shutdown.late = {}

(***************************************************************************)
(* The cursor of the role file from one ProcessFile call to the next.      *)
(***************************************************************************)
\* C25: a ProcessFile call that detects no rotation or truncation never
\* lowers the persisted last_byte_offset; the offset goes down only in a
\* call that detected one and read the file again from byte 0.
C25_CursorMonotone ==
    [][passes' = passes + 1 =>
          /\ ~pass'.reset =>
                processing_state'.LastByteOffset >= processing_state.LastByteOffset
          /\ processing_state'.LastByteOffset < processing_state.LastByteOffset =>
                pass'.reset /\ pass'.from = 0]_vars

\* A second cursor write with no rotation in between moved the offset up.
C25_Witness ==
    /\ pass.outcome = "read" /\ pass.wrote /\ ~pass.reset
    /\ pass.prev.present /\ pass.prev.LastByteOffset > 0
    /\ pass.from = pass.prev.LastByteOffset
    /\ processing_state.LastByteOffset > pass.prev.LastByteOffset

(***************************************************************************)
(* The attribute readers of the Engine on the encodings of a number.       *)
(***************************************************************************)
AttrNumbers == {0, 1, 2, 3, 1500, 0 - 1}

\* The decimal spelling of a number.
Itoa(n) ==
    CASE n = 0 -> "0"
      [] n = 1 -> "1"
      [] n = 2 -> "2"
      [] n = 3 -> "3"
      [] n = 1500 -> "1500"
      [] n = 0 - 1 -> "-1"

AttrValueChoices ==
    UNION {{IntValueStr(Itoa(n)), IntValueNum(ToFloat64(n)), Raw(Num(ToFloat64(n))),
            Raw(Str(Itoa(n))), StringValue(Itoa(n)), DoubleValue(ToFloat64(n)),
            DoubleValue(n), Raw(Num(n))} : n \in AttrNumbers}
    \cup {BoolValue(TRUE), Raw(Bool(TRUE)), StringValue("abc")}

AttrInputs ==
    {[op |-> "attr", key |-> "input_tokens", attrs |-> AttrMap(<<Attr(k, v)>>)] :
        k \in {"input_tokens", "duration_ms"}, v \in AttrValueChoices}

InitAttr ==
    /\ file = [exists |-> FALSE, inode |-> 0, lines |-> <<>>, since |-> "grown"]
    /\ processing_state = NoRow
    /\ engine = NewEngine
    /\ pass = NoPass
    /\ passes = 0
    /\ history = <<>>
    /\ xin \in AttrInputs
    /\ xout = [op |-> "none", records |-> <<>>]
    /\ store = NewStore
    /\ logs = <<>>
    /\ traces = <<>>
    /\ now = 0
    /\ locking = Unlocked
    /\ lastFlush = NoFlush
    /\ shutdown = Serving

\* The four readers applied to the attribute map.
ExtractAttr ==
    /\ xin.op = "attr"
    /\ xout.op = "none"
    /\ xout' = [op |-> "attr", records |-> <<>>,
                int |-> extractInt(xin.attrs, xin.key),
                float |-> extractFloat(xin.attrs, xin.key),
                string |-> extractString(xin.attrs, xin.key),
                bool |-> extractBool(xin.attrs, xin.key)]
    /\ UNCHANGED <<file, processing_state, engine, pass, passes, history, xin, aux>>

NextAttr == ExtractAttr

SpecAttr == InitAttr /\ [][NextAttr]_vars

\* C26: extractInt returns n for the integer n encoded as a value object with
\* a string intValue, as a value object with a numeric intValue and as a bare
\* number; extractFloat returns x for a value object with doubleValue x.
C26_NumberEncodings ==
    (xout.op = "attr" /\ xin.key \in DOMAIN xin.attrs) =>
        \A n \in AttrNumbers :
            /\ xin.attrs[xin.key] \in {IntValueStr(Itoa(n)), IntValueNum(ToFloat64(n)),
                                       Raw(Num(ToFloat64(n)))} => xout.int = n
            /\ xin.attrs[xin.key] = DoubleValue(n) => xout.float = n

(***************************************************************************)
(* The decision buckets of the per-session tool rows.                      *)
(***************************************************************************)
\* A tool_result event with its decision; an empty decision type or source
\* stands for the attribute being absent.
Decision(tool, decisionType, decisionSource) ==
    LogRecord("s1", 2, "claude_code.tool_result",
              <<Attr("tool_name", StringValue(tool)), Attr("success", BoolValue(TRUE))>>
              \o (IF decisionType = "" THEN <<>>
                  ELSE <<Attr("decision_type", StringValue(decisionType))>>)
              \o (IF decisionSource = "" THEN <<>>
                  ELSE <<Attr("decision_source", StringValue(decisionSource))>>))

DecisionLogChoices ==
    {Decision("Read", t, s) : t \in {"accept", "reject", ""},
                              s \in {"config", "user_temporary", ""}}
    \cup {Decision("Bash", "reject", "config"),
          LogRecord("s1", 2, "claude_code.tool_decision",
                    <<Attr("tool_name", StringValue("Read")),
                      Attr("decision_type", StringValue("reject"))>>)}

NextDecisions ==
    \/ \E record \in DecisionLogChoices : Folds < MaxFolds /\ FoldLog(record)
    \/ FlushCache({})
    \/ Restart

SpecDecisions == Init /\ [][NextDecisions]_vars

\* Every per-session tool row, cached or stored.
ToolRows ==
    Entries(engine.sessionToolsCache)
    \cup {store.session_tools[k] : k \in DOMAIN store.session_tools}

BucketsSum(row) ==
    row.AutoApprovedCount + row.UserApprovedCount + row.RejectedCount = row.CallCount

\* The one bucket of a tool_result record.
Bucket(record) ==
    IF extractString(record.Attributes, "decision_type") = "reject" THEN "RejectedCount"
    ELSE IF extractString(record.Attributes, "decision_source") = "config"
         THEN "AutoApprovedCount"
         ELSE "UserApprovedCount"

\* The cached row of a tool, all zero while the tool has none.
CachedTool(e, s, T) ==
    IF s \in DOMAIN e.sessionToolsCache /\ T \in DOMAIN e.sessionToolsCache[s]
    THEN e.sessionToolsCache[s][T]
    ELSE NewSessionTool(s, T)

\* The fold of the tool_result record adds one call to the row of its tool,
\* one to the record's bucket and nothing to the other two buckets.
CountedOnce(record) ==
    LET T   == extractString(record.Attributes, "tool_name")
        old == CachedTool(engine, record.SessionID, T)
        new == CachedTool(engine', record.SessionID, T)
    IN  (IsToolResult(record) /\ T # "") =>
            /\ new.CallCount = old.CallCount + 1
            /\ \A b \in {"RejectedCount", "AutoApprovedCount", "UserApprovedCount"} :
                   new[b] = old[b] + (IF b = Bucket(record) THEN 1 ELSE 0)

\* C27: in every per-session tool row, after any sequence of tool_result
\* records, auto_approved_count + user_approved_count + rejected_count equals
\* call_count, and each record is counted in exactly one bucket: rejected when
\* decision_type is reject, otherwise auto-approved when decision_source is
\* config, otherwise user-approved.
C27_DecisionBuckets ==
    [][/\ \A row \in ToolRows' : BucketsSum(row)
       /\ Len(logs') = Len(logs) + 1 => CountedOnce(logs'[Len(logs')])]_vars

\* A stored row with three calls, one in each bucket.
C27_Witness ==
    \E k \in DOMAIN store.session_tools :
        /\ store.session_tools[k].CallCount = 3
        /\ store.session_tools[k].RejectedCount = 1
        /\ store.session_tools[k].AutoApprovedCount = 1
        /\ store.session_tools[k].UserApprovedCount = 1

(***************************************************************************)
(* The limit query parameter of the API handlers.                          *)
(***************************************************************************)
DefaultLimit == 10
MaxLimit == 100

\* fmt.Sscanf(s, "%d", &n) assigns n only when s starts with a decimal integer.
SscanfInto(s, n) == IF s \in {"0", "1", "2", "3", "-1", "1500"} THEN Sscanf_d(s) ELSE n

\* The limit a handler computes from the query string.
QueryLimit(limitStr) ==
    LET limit == IF limitStr # "" THEN SscanfInto(limitStr, DefaultLimit) ELSE DefaultLimit
    IN  IF limit > MaxLimit THEN MaxLimit ELSE limit

ApiInputs ==
    [op : {"api"}, handler : {"handleUserStats", "handleOrgStats", "handleV2SessionsList"},
     userID : {"", "u1"}, orgID : {"", "o1"},
     limitStr : {"", "0", "1", "2", "3", "-1", "1500", "abc", "ten"}]

InitApi ==
    /\ file = [exists |-> FALSE, inode |-> 0, lines |-> <<>>, since |-> "grown"]
    /\ processing_state = NoRow
    /\ engine = NewEngine
    /\ pass = NoPass
    /\ passes = 0
    /\ history = <<>>
    /\ xin \in ApiInputs
    /\ xout = [op |-> "none", records |-> <<>>]
    /\ store = NewStore
    /\ logs = <<>>
    /\ traces = <<>>
    /\ now = 0
    /\ locking = Unlocked
    /\ lastFlush = NoFlush
    /\ shutdown = Serving

\* The reply of a handler: the Store query it made and the limit it passed.
Reply(call, limit) == [op |-> "api", records |-> <<>>, call |-> call, limit |-> limit]

handleUserStats ==
    /\ xin.op = "api" /\ xin.handler = "handleUserStats"
    /\ xout.op = "none"
    /\ xout' = IF xin.userID = "" THEN Reply("none", 0)
               ELSE Reply("GetUserSessionStats", QueryLimit(xin.limitStr))
    /\ UNCHANGED <<file, processing_state, engine, pass, passes, history, xin, aux>>

handleOrgStats ==
    /\ xin.op = "api" /\ xin.handler = "handleOrgStats"
    /\ xout.op = "none"
    /\ xout' = IF xin.orgID = "" THEN Reply("none", 0)
               ELSE Reply("GetOrgSessionStats", QueryLimit(xin.limitStr))
    /\ UNCHANGED <<file, processing_state, engine, pass, passes, history, xin, aux>>

handleV2SessionsList ==
    /\ xin.op = "api" /\ xin.handler = "handleV2SessionsList"
    /\ xout.op = "none"
    /\ xout' = Reply(IF xin.userID # "" THEN "GetSessionsByUser"
                     ELSE IF xin.orgID # "" THEN "GetSessionsByOrg"
                     ELSE "GetAllSessions",
                     QueryLimit(xin.limitStr))
    /\ UNCHANGED <<file, processing_state, engine, pass, passes, history, xin, aux>>

NextApi == handleUserStats \/ handleOrgStats \/ handleV2SessionsList

SpecApi == InitApi /\ [][NextApi]_vars

\* C28: for every value of the limit query parameter, zero, negative and
\* non-numeric ones included, the limit the user, organization and session-list
\* handlers hand to the Store lies between 1 and 100.
C28_LimitInRange ==
    (xout.op = "api" /\ xout.call # "none") => (1 <= xout.limit /\ xout.limit <= 100)

(***************************************************************************)
(* Store.UpsertSession on sessions given by a caller.                      *)
(***************************************************************************)
SessionChoices ==
    {[NewSession("s1", "o1", "u1", startTime)
         EXCEPT !.EndTime = endTime, !.TotalCostUSD = cost, !.ToolCallCount = calls,
                !.UserPromptCount = prompts, !.CreatedAt = createdAt,
                !.UpdatedAt = createdAt + 1] :
        startTime \in {Second, 2 * Second + 2}, endTime \in {ZeroTime, 2 * Second + 2},
        cost \in {0, 5}, calls \in {0, 1}, prompts \in {0, 1}, createdAt \in {0, 1}}

Upserts == IF xin.op = "upsert" THEN xin.n ELSE 0

\* One call of Store.UpsertSession; xin remembers the call and the table as
\* it was before.
Upsert(session) ==
    /\ Upserts < MaxUpserts
    /\ store' = [store EXCEPT !.sessions = UpsertSession(@, session)]
    /\ xin' = [op |-> "upsert", n |-> Upserts + 1, session |-> session,
                before |-> store.sessions]
    /\ UNCHANGED <<file, processing_state, engine, pass, passes, history, xout, logs,
                   traces, now, lastFlush, shutdown, locking>>

NextUpsert == \E session \in SessionChoices : Upsert(session)

SpecUpsert == Init /\ [][NextUpsert]_vars

\* The end_time column for a session: NULL for the zero time.
EndTimeColumn(session) ==
    IF session.EndTime = ZeroTime THEN NullTime ELSE Unix(session.EndTime)

Totals ==
    {"TotalCostUSD", "TotalInputTokens", "TotalOutputTokens", "TotalCacheReadTokens",
     "TotalCacheCreationTokens"}

Counts == {"APIRequestCount", "APIErrorCount", "UserPromptCount", "ToolCallCount"}

\* C29: UpsertSession on a session_id that has a row overwrites end_time, the
\* totals, the counts and updated_at with the given values and leaves the
\* stored start_time and created_at as first inserted; on a new session_id it
\* writes all fields.
C29_UpsertSessionFrame ==
    xin.op = "upsert" =>
        LET session == xin.session
            row     == store.sessions[session.SessionID]
        IN  /\ row.EndTime = EndTimeColumn(session)
            /\ \A f \in Totals \cup Counts \cup {"UpdatedAt", "TotalAPILatencyMS"} :
                   row[f] = session[f]
            /\ IF session.SessionID \in DOMAIN xin.before
               THEN /\ row.StartTime = xin.before[session.SessionID].StartTime
                    /\ row.CreatedAt = xin.before[session.SessionID].CreatedAt
               ELSE /\ row.StartTime = Unix(session.StartTime)
                    /\ row.CreatedAt = session.CreatedAt
                    /\ row.OrganizationID = session.OrganizationID
                    /\ row.UserID = session.UserID

(***************************************************************************)
(* The tail of a file longer than one checkpoint interval, with passes     *)
(* that fail and a process that is killed and started again.  `pass` holds *)
(* the cursor and the file size the last pass found and how it ended.      *)
(***************************************************************************)
\* One export followed by lines that do not parse: one line more than a
\* checkpoint interval.
TailFile ==
    [i \in 1..(CheckpointEvery + 1) |->
        IF i = 1 THEN Line("wrapped", EnvCost) ELSE Line("junk", NoEnvelope)]

InitTail ==
    /\ file = [exists |-> TRUE, inode |-> 1, lines |-> TailFile, since |-> "grown"]
    /\ processing_state = NoRow
    /\ engine = NewEngine
    /\ pass = NoPass
    /\ passes = 0
    /\ history = <<>>
    /\ xin = [op |-> "none"]
    /\ xout = [op |-> "none", records |-> <<>>]
    /\ store = NewStore
    /\ logs = <<>>
    /\ traces = <<>>
    /\ now = 0
    /\ locking = Unlocked
    /\ lastFlush = NoFlush
    /\ shutdown = Serving

\* The state ProcessFile works with after the rotation test (processor.go:86-98).
StateAfterRotationTest ==
    LET st0 == GetProcessingState(processing_state)
    IN  IF Rotated([Size |-> ByteSize(file.lines), Inode |-> file.inode], st0)
        THEN [st0 EXCEPT !.LastByteOffset = 0, !.FileSizeBytes = 0] ELSE st0

\* What a pass that starts now has found.
Found(outcome) ==
    [NoPass EXCEPT !.outcome = outcome, !.prev = processing_state,
                   !.statSize = ByteSize(file.lines), !.statInode = file.inode,
                   !.from = StateAfterRotationTest.LastByteOffset]

\* ProcessFile up to the seek, on a file with new data (processor.go:76-121).
TailBegins ==
    /\ shutdown.processor = "waiting"
    /\ file.exists
    /\ Len(history) < MaxHistory
    /\ ByteSize(file.lines) > StateAfterRotationTest.FileSizeBytes
    /\ shutdown' = [shutdown EXCEPT
           !.processor = "in pass",
           !.scan = [tokens |-> Scan(file.lines, 0, StateAfterRotationTest.LastByteOffset),
                     currentOffset |-> StateAfterRotationTest.LastByteOffset,
                     newLinesProcessed |-> 0, size |-> ByteSize(file.lines)]]
    /\ pass' = Found("begun")
    /\ UNCHANGED <<file, processing_state, engine, passes, history, xin, xout, store,
                   logs, traces, now, lastFlush, locking>>

\* ProcessFile returning at "No new data" (processor.go:100-103).
TailReturns ==
    /\ shutdown.processor = "waiting"
    /\ file.exists
    /\ ByteSize(file.lines) <= StateAfterRotationTest.FileSizeBytes
    /\ pass' = Found("nonew")
    /\ UNCHANGED <<file, processing_state, engine, passes, history, xin, xout, store,
                   logs, traces, now, lastFlush, shutdown, locking>>

\* os.Stat, GetProcessingState, os.Open or file.Seek returns an error
\* (processor.go:76-116): ProcessFile returns it.
OpenFails ==
    /\ shutdown.processor = "waiting"
    /\ file.exists
    /\ pass' = Found("error")
    /\ UNCHANGED <<file, processing_state, engine, passes, history, xin, xout, store,
                   logs, traces, now, lastFlush, shutdown, locking>>

\* scanner.Scan returns false on a read error and scanner.Err is returned
\* (processor.go:148-150).
ReadFails ==
    /\ shutdown.processor = "in pass"
    /\ shutdown.scan.tokens # <<>>
    /\ shutdown' = [shutdown EXCEPT !.processor = "waiting", !.scan = NoScan]
    /\ pass' = [pass EXCEPT !.outcome = "error"]
    /\ UNCHANGED <<file, processing_state, engine, passes, history, xin, xout, store,
                   logs, traces, now, lastFlush, locking>>

\* The final UpdateProcessingState returns an error (processor.go:154-156).
FinalWriteFails ==
    /\ shutdown.processor = "in pass"
    /\ shutdown.scan.tokens = <<>>
    /\ shutdown.scan.newLinesProcessed > 0
    /\ shutdown' = [shutdown EXCEPT !.processor = "waiting", !.scan = NoScan]
    /\ pass' = [pass EXCEPT !.outcome = "write failed"]
    /\ UNCHANGED <<file, processing_state, engine, passes, history, xin, xout, store,
                   logs, traces, now, lastFlush, locking>>

\* The process is killed and started again: NewStore opens the database as
\* it is, NewEngine starts with empty caches (part_000:37-51, engine.go:27-45).
Crash ==
    /\ engine # NewEngine \/ shutdown.processor = "in pass"
    /\ engine' = NewEngine
    /\ lastFlush' = NoFlush
    /\ shutdown' = Serving
    /\ pass' = NoPass
    /\ UNCHANGED <<file, processing_state, passes, history, xin, xout, store, logs,
                   traces, now, locking>>

NextTail ==
    \/ TailBegins
    \/ TailReturns
    \/ OpenFails
    \/ PassLine
    \/ ReadFails
    \/ PassEnds
    \/ FinalWriteFails
    \/ PeriodicFlush
    \/ Crash

SpecTail == InitTail /\ [][NextTail]_vars

\* C31: ProcessFile returns without reading only when the file size is at
\* most the stored size and the stored offset is at least the file size; with
\* the stored offset below the file size the pass reads the remaining lines
\* even if the file has not grown.
C31_ReturnsOnlyAtEndOfFile ==
    pass.outcome = "nonew" =>
        /\ pass.statSize <= pass.prev.FileSizeBytes
        /\ pass.prev.LastByteOffset >= pass.statSize

\* The next pass reads from the offset the failed pass started at, and reads
\* whenever bytes lie behind that offset.
Retried ==
    /\ StateAfterRotationTest.LastByteOffset = pass.from
    /\ pass.from < pass.statSize =>
           ByteSize(file.lines) > StateAfterRotationTest.FileSizeBytes

\* C33: when a pass fails with a stat, open, seek or read error, the persisted
\* cursor after the pass is the persisted cursor before it, and the same
\* bytes are retried on the next tick.
C33_FailedPassKeepsCursor ==
    pass.outcome = "error" => (processing_state = pass.prev /\ Retried)

\* The records the lines of the file hold, each line counted once.
RecordsIn(lines) ==
    SumSeq([i \in DOMAIN lines |-> Len(processLine(NewEngine, lines[i]).records)])

\* C37: without rotation or truncation each line of the file is folded into
\* the Engine at most once across all passes, also when a pass ends with a
\* read error after some lines were folded and when the final cursor write
\* fails.
C37_FoldedAtMostOnce == Len(history) <= RecordsIn(file.lines)

\* The cost of the first line's record is in the Store, or in the cache from
\* which the next flush writes it.
CostKept(sessions) ==
    "s1" \in DOMAIN sessions /\ sessions["s1"].TotalCostUSD >= CostAmount(history[1])

\* C38: a record whose line lies behind the persisted cursor is never lost:
\* if the process stops after the cursor write and before the next flush, the
\* record's contribution still reaches the Store after the restart.
C38_BehindCursorNotLost ==
    processing_state.LastByteOffset >= ByteSize(SubSeq(file.lines, 1, 1)) =>
        (CostKept(store.sessions) \/ CostKept(engine.sessionsCache))

(***************************************************************************)
(* The tail under a fair scheduler: the ticker keeps firing and a pass     *)
(* that has begun runs to its end.  No record is folded, the lines are     *)
(* blank, unparseable or too long for the scanner.                         *)
(***************************************************************************)
FairLineChoices ==
    {Line("junk", NoEnvelope), Line("wrapjunk", NoEnvelope), Line("wrapnum", NoEnvelope),
     Line("blank", NoEnvelope), Line("long", NoEnvelope)}

\* The scanner has a token to hand out.
TokenReady ==
    /\ shutdown.processor = "in pass"
    /\ shutdown.scan.tokens # <<>>
    /\ Head(shutdown.scan.tokens).line.form # "long"

FairLine == TokenReady /\ PassLine

\* The next line does not fit in the scanner's buffer: scanner.Scan returns
\* false, scanner.Err is bufio.ErrTooLong and ProcessFile returns it
\* (processor.go:118, 148-150).
TooLong ==
    /\ shutdown.processor = "in pass"
    /\ shutdown.scan.tokens # <<>>
    /\ Head(shutdown.scan.tokens).line.form = "long"
    /\ shutdown' = [shutdown EXCEPT !.processor = "waiting", !.scan = NoScan]
    /\ pass' = [pass EXCEPT !.outcome = "error"]
    /\ UNCHANGED <<file, processing_state, engine, passes, history, xin, xout, store,
                   logs, traces, now, lastFlush, locking>>

\* The collector appends a line; the pass in flight keeps what it found.
FairAppend(l) ==
    /\ Len(file.lines) < MaxLines
    /\ file' = IF file.exists
               THEN [file EXCEPT !.lines = Append(@, l)]
               ELSE [file EXCEPT !.exists = TRUE, !.inode = @ + 1, !.lines = <<l>>]
    /\ UNCHANGED <<processing_state, engine, pass, passes, history, xin, xout, aux>>

NextFair ==
    \/ \E l \in FairLineChoices : FairAppend(l)
    \/ TailBegins
    \/ TailReturns
    \/ FairLine
    \/ TooLong
    \/ PassEnds

SpecFair ==
    /\ Init
    /\ [][NextFair]_vars
    /\ WF_vars(TailBegins) /\ WF_vars(FairLine) /\ WF_vars(TooLong) /\ WF_vars(PassEnds)

\* Line i of the file ends at or before the persisted offset.
BehindCursor(i) ==
    /\ Len(file.lines) >= i
    /\ processing_state.LastByteOffset >= ByteSize(SubSeq(file.lines, 1, i))

\* C32: under a fair scheduler and with no rotation, every line appended to
\* the file is eventually behind the persisted cursor, whatever its content
\* or length.
C32_EveryLineEventuallyBehindCursor ==
    \A i \in 1..(MaxLines + 1) : (Len(file.lines) >= i) ~> BehindCursor(i)

(***************************************************************************)
(* Engine.cacheMutex.  The processor goroutine folds records, the flush    *)
(* timer, the health handler and main call FlushCache.  locking.holders is *)
(* the set of goroutines between Lock and Unlock; a fold updates the       *)
(* session entry first and the per-model entry after it.                   *)
(***************************************************************************)
Flushers == {"timer", "health", "main"}
Goroutines == {"processor"} \cup Flushers

LockRecordChoices == {CostRecord("s1", Float64(5), "m1"), CostRecord("s1", Float64(5), "m2")}

\* Mutant: Lock returns at once, whoever holds the mutex.
LockWithoutWaiting(g) ==
    /\ g \notin locking.holders
    /\ locking' = [locking EXCEPT !.holders = @ \cup {g}]
    /\ UNCHANGED <<file, processing_state, engine, pass, passes, history, xin, xout, store,
                   logs, traces, now, lastFlush, shutdown>>

\* e.cacheMutex.Lock() at the head of FlushCache, ProcessMetric, ProcessLog
\* and ProcessTrace: returns once no goroutine holds the mutex.
Lock(g) ==
    /\ g \notin locking.holders
    /\ locking.holders = {}
    /\ locking' = [locking EXCEPT !.holders = {g}]
    /\ UNCHANGED <<file, processing_state, engine, pass, passes, history, xin, xout, store,
                   logs, traces, now, lastFlush, shutdown>>

\* defer e.cacheMutex.Unlock(): the function returns.
Unlock(g) ==
    /\ g \in locking.holders
    /\ ~locking.fold.busy
    /\ locking' = [locking EXCEPT !.holders = @ \ {g}]
    /\ UNCHANGED <<file, processing_state, engine, pass, passes, history, xin, xout, store,
                   logs, traces, now, lastFlush, shutdown>>

\* ProcessMetric up to the per-model update (engine.go:140-184): the session
\* entries hold the record, the per-model entries do not yet.
FoldSessionPart(record) ==
    /\ "processor" \in locking.holders
    /\ ~locking.fold.busy
    /\ Len(history) < MaxHistory
    /\ engine' = [ProcessMetric(engine, record) EXCEPT
                      !.sessionModelsCache = engine.sessionModelsCache,
                      !.modelStatsCache = engine.modelStatsCache]
    /\ locking' = [locking EXCEPT !.fold = [busy |-> TRUE, record |-> record,
                                            before |-> engine]]
    /\ UNCHANGED <<file, processing_state, pass, passes, history, xin, xout, store,
                   logs, traces, now, lastFlush, shutdown>>

\* The per-model update of the record (engine.go:186-196).
FoldModelPart ==
    /\ "processor" \in locking.holders
    /\ locking.fold.busy
    /\ \E done \in {ProcessMetric(locking.fold.before, locking.fold.record)} :
           engine' = [engine EXCEPT !.sessionModelsCache = done.sessionModelsCache,
                                    !.modelStatsCache = done.modelStatsCache]
    /\ history' = Append(history, locking.fold.record)
    /\ locking' = [locking EXCEPT !.fold = NoFold]
    /\ UNCHANGED <<file, processing_state, pass, passes, xin, xout, store,
                   logs, traces, now, lastFlush, shutdown>>

\* The body of FlushCache, run by a goroutine that holds the mutex.
LockedFlush(g) == g \in locking.holders /\ FlushCache({})

NextLock ==
    \/ \E g \in Goroutines : Lock(g)
    \/ \E g \in Goroutines : Unlock(g)
    \/ \E record \in LockRecordChoices : FoldSessionPart(record)
    \/ FoldModelPart
    \/ \E g \in Flushers : LockedFlush(g)

SpecLock == Init /\ [][NextLock]_vars

\* The cost of a stored session is the cost of its stored per-model rows.
StoredModelCost(sid, m) ==
    IF <<sid, m>> \in DOMAIN store.session_models
    THEN store.session_models[<<sid, m>>].CostUSD ELSE 0

StoredCostsAgree ==
    \A sid \in DOMAIN store.sessions :
        store.sessions[sid].TotalCostUSD =
            StoredModelCost(sid, "m1") + StoredModelCost(sid, "m2")

\* C34: FlushCache and the folds are mutually exclusive on the cache: a flush
\* never writes a state in which a record's contribution is in the session
\* entry but not yet in the per-model entry, and the flushes of the timer, the
\* health handler and shutdown never overlap.
C34_FlushAndFoldExclusive ==
    /\ Cardinality(locking.holders) <= 1
    /\ StoredCostsAgree

\* The timer flushes two folded records while it holds the mutex.
C34_Witness ==
    /\ locking.holders = {"timer"}
    /\ lastFlush.done
    /\ "s1" \in DOMAIN store.sessions
    /\ store.sessions["s1"].TotalCostUSD = 10
    /\ Len(history) = 2

(***************************************************************************)
(* Two records of one session folded in both orders.                       *)
(***************************************************************************)
MaxPrefix == 1

\* A record with the handler it goes to.  The timestamps differ, so that the
\* two orders of a pair are not the same run.
PairChoices ==
    {[kind |-> "metric", record |-> r] :
        r \in {CostRecord("s1", Float64(5), "m1"), CostRecord("s1", Float64(3), "m2"),
               TokenRecord(Int64(2), "input", "m1"), TokenRecord(Int64(3), "output", "m1")}}
    \cup {[kind |-> "log", record |-> r] :
        r \in {LogRecord("s1", 2, "claude_code.api_request",
                         <<Attr("model", StringValue("m1")),
                           Attr("duration_ms", DoubleValue(8))>>),
               LogRecord("s1", 3, "claude_code.api_error", <<>>),
               LogRecord("s1", 4, "claude_code.user_prompt", <<>>),
               ToolResult(5, "Read", TRUE, 181), ToolResult(6, "Read", FALSE, 483),
               ToolResult(7, "Bash", TRUE, 49)}}
    \cup {[kind |-> "trace", record |-> TraceRecord("s1", 8)]}

PairInputs == [op : {"pair"}, first : PairChoices, second : PairChoices]

InitPair ==
    /\ file = [exists |-> FALSE, inode |-> 0, lines |-> <<>>, since |-> "grown"]
    /\ processing_state = NoRow
    /\ engine = NewEngine
    /\ pass = NoPass
    /\ passes = 0
    /\ history = <<>>
    /\ xin \in PairInputs
    /\ xout = [op |-> "none", records |-> <<>>]
    /\ store = NewStore
    /\ logs = <<>>
    /\ traces = <<>>
    /\ now = 0
    /\ locking = Unlocked
    /\ lastFlush = NoFlush
    /\ shutdown = Serving

\* The handler of the Engine for the record's kind.
Process(e, x) ==
    CASE x.kind = "metric" -> ProcessMetric(e, x.record)
      [] x.kind = "log"    -> ProcessLog(e, x.record)
      [] x.kind = "trace"  -> ProcessTrace(e, x.record)

\* A record folded before the pair.
FoldBefore(x) ==
    /\ xout.op = "none"
    /\ Folds < MaxPrefix
    /\ CASE x.kind = "metric" -> FoldMetric(x.record)
         [] x.kind = "log"    -> FoldLog(x.record)
         [] x.kind = "trace"  -> FoldTrace(x.record)

\* The pair folded into the cache as it is, in the one order and in the other.
FoldBothOrders ==
    /\ xin.op = "pair"
    /\ xout.op = "none"
    /\ xout' = [op |-> "pair", records |-> <<>>,
                ab |-> Process(Process(engine, xin.first), xin.second),
                ba |-> Process(Process(engine, xin.second), xin.first)]
    /\ UNCHANGED <<file, processing_state, engine, pass, passes, history, xin, aux>>

NextPair ==
    \/ \E x \in {y \in PairChoices : y.record.Timestamp \in {1, 2, 5}} : FoldBefore(x)
    \/ FoldBothOrders

SpecPair == InitPair /\ [][NextPair]_vars

\* The totals and the counts of the cached sessions.
SessionCounters(e) ==
    [sid \in DOMAIN e.sessionsCache |->
        [f \in Totals \cup Counts |-> e.sessionsCache[sid][f]]]

\* C35: for any two records of the same session, folding them in either order
\* gives the same session cost and token totals, the same api_request,
\* api_error, user_prompt and tool_call counts and the same per-model and
\* per-tool counters.
C35_CountersCommute ==
    xout.op = "pair" =>
        /\ SessionCounters(xout.ab) = SessionCounters(xout.ba)
        /\ xout.ab.sessionModelsCache = xout.ba.sessionModelsCache
        /\ xout.ab.sessionToolsCache = xout.ba.sessionToolsCache

\* Two calls of one tool with different durations, folded after another
\* record: the two orders leave different caches with the same counters.
C35_Witness ==
    /\ xout.op = "pair"
    /\ Folds = 1
    /\ xin.first.record = ToolResult(5, "Read", TRUE, 181)
    /\ xin.second.record = ToolResult(6, "Read", FALSE, 483)
    /\ xout.ab # xout.ba
    /\ xout.ab.sessionToolsCache["s1"]["Read"].CallCount = 2

\* The step folds the trace record.
TraceFolded(record) == traces' = Append(traces, record)

\* C36: ProcessTrace with a non-empty session_id ensures that the sessions
\* cache holds an entry for the session, created when absent, whose end_time
\* reflects the record's timestamp, and changes no total or count of the
\* session.
C36_TraceEnsuresSession ==
    [][\A record \in TraceChoices :
          (TraceFolded(record) /\ record.SessionID # "") =>
              /\ record.SessionID \in DOMAIN engine'.sessionsCache
              /\ engine'.sessionsCache[record.SessionID].EndTime >= record.Timestamp
              /\ record.SessionID \in DOMAIN engine.sessionsCache =>
                     \A f \in Totals \cup Counts :
                         engine'.sessionsCache[record.SessionID][f]
                             = engine.sessionsCache[record.SessionID][f]]_vars

\* C39: every session_models, session_tools and session_prompts row of the
\* Store refers to a session_id that has a sessions row.
C39_RowsReferToSession ==
    /\ \A k \in DOMAIN store.session_models : k[1] \in DOMAIN store.sessions
    /\ \A k \in DOMAIN store.session_tools : k[1] \in DOMAIN store.sessions
    /\ \A p \in store.session_prompts : p.SessionID \in DOMAIN store.sessions

\* The legacy tool rows and the new tool rows of a session count the same calls.
ToolRowsInStep(sid) ==
    LET legacy == IF sid \in DOMAIN engine.toolStatsCache
                  THEN engine.toolStatsCache[sid] ELSE <<>>
        new    == IF sid \in DOMAIN engine.sessionToolsCache
                  THEN engine.sessionToolsCache[sid] ELSE <<>>
    IN  /\ DOMAIN legacy = DOMAIN new
        /\ \A T \in DOMAIN legacy : legacy[T].ExecutionCount = new[T].CallCount

\* C40: after any sequence of metric, log and trace records the legacy and
\* the new caches hold entries for the same session ids, with equal cost and
\* token totals, the legacy tool_execution_count equal to the new
\* tool_call_count and each legacy per-tool execution_count equal to the new
\* per-tool call_count.
C40_CachesInStep ==
    /\ DOMAIN engine.sessionCache = DOMAIN engine.sessionsCache
    /\ \A sid \in DOMAIN engine.sessionCache \cap DOMAIN engine.sessionsCache :
           /\ \A f \in Totals : engine.sessionCache[sid][f] = engine.sessionsCache[sid][f]
           /\ engine.sessionCache[sid].ToolExecutionCount
                  = engine.sessionsCache[sid].ToolCallCount
           /\ ToolRowsInStep(sid)

====
